---- MODULE Spec2Model ----
(***************************************************************************)
(* Model of the generated "Custom Agent" workflow engine:                  *)
(*   - the node executor  (src/nodes/.../processor.py, run())              *)
(*   - the graph engine   (src/graph/main.py, CustomAgentGraph.execute())  *)
(*   - the stage wrappers (src/graph/nodes/nodes.py)                       *)
(* A driver calls one entry point (a node's run() or the graph's           *)
(* execute()) with an input drawn from Inputs; the environment chooses     *)
(* what each compute call does and how long every await takes.             *)
(***************************************************************************)
EXTENDS Integers, Sequences, FiniteSets, TLC

VARIABLES
    mode,            \* entry point the driver called: "idle", "run", "execute"
    npc,             \* position inside a node's run(): "none", "attempt", "compute", "sleep", "done"
    kind,            \* kind of the node whose run() is active: "LLM" or "TOOL" ("-" when none)
    n_input,         \* input_data of the active run()
    attempt,         \* loop variable of run()
    computes,        \* number of times run() has invoked the compute coroutine
    delays,          \* arguments of the asyncio.sleep calls made by run(), in order
    fails,           \* exception type handled on each finished attempt of run(), in order
    ends,            \* how each awaited compute call of run() ended, in order
    n_out,           \* outcome of run(): [status, value, error]
    gpc,             \* position inside execute(): "none", "attempt", "traverse", "sleep", "done"
    g_input,         \* input_data of execute()
    g_attempt,       \* loop variable of execute()
    g_delays,        \* arguments of the asyncio.sleep calls made by execute(), in order
    g_fails,         \* exception type handled on each failed attempt of execute(), in order
    g_ends,          \* how each awaited graph.ainvoke of execute() ended, in order
    stage_idx,       \* 1-based index of the next stage of the running traversal
    state,           \* AgentState threaded through the running traversal
    invoked,         \* stage wrappers invoked by execute(), over all attempts, in order
    stage_ends,      \* how each stage wrapper of the running traversal ended, in order
    elapsed,         \* seconds since the running traversal's wait_for began
    g_out,           \* outcome of execute(): [status, value, error]
    node_instances,  \* keys of the module-global _node_instances cache
    heap,            \* the AgentState dicts, results dicts and messages lists allocated by the state functions
    cur,             \* per caller, the state object its local variable "state" refers to (0: none)
    owner,           \* per state object, the caller whose call allocated it
    last_op,         \* the last state function called: [op, call, arg, ret, stage, value]
    graph,           \* the StateGraph last built: [stages, style, nodes, edges, branches]
    thread,          \* the last thread configuration computed: [fn, user_id, session_id, version, thread_id]
    manager,         \* the CheckpointerManager last constructed: [env, sqlite, checkpointer, enabled]
    engine,          \* the CustomAgentGraph whose execute() runs: [checkpointer, configs]
    prev_thread,     \* the thread configuration computed before the last one
    report           \* the last use case executed and its execution result

vars == <<mode, npc, kind, n_input, attempt, computes, delays, fails, ends, n_out,
          gpc, g_input, g_attempt, g_delays, g_fails, g_ends, stage_idx, state,
          invoked, stage_ends, elapsed, g_out, node_instances,
          heap, cur, owner, last_op, graph, thread, manager, engine, prev_thread,
          report>>

node_vars == <<npc, kind, n_input, attempt, computes, delays, fails, ends, n_out>>
obj_vars == <<heap, cur, owner, last_op>>
aux_vars == <<graph, thread, manager, prev_thread, report>>
graph_vars == <<gpc, g_input, g_attempt, g_delays, g_fails, g_ends, stage_idx, state,
                invoked, stage_ends, elapsed, g_out>>

-----------------------------------------------------------------------------
(* Program constants *)

\* max_retries of run(), the same in the LLM and the tool processor
max_retries == 3
\* retry_delay of an LLM node's run()
llm_retry_delay == 2
\* retry_delay of a tool node's run()
tool_retry_delay == 1
\* timeout of the asyncio.wait_for around an LLM node's compute coroutine
llm_timeout == 60
\* max_retries of execute()
graph_max_retries == 3
\* retry_delay of execute()
graph_retry_delay == 2
\* timeout of the asyncio.wait_for around graph.ainvoke
graph_timeout == 120
\* longest string _validate_graph_input accepts
graph_max_str_len == 50000
\* longest list _validate_graph_input accepts
graph_max_list_len == 1000

\* Config.agent_stages
agent_stages == <<"llm_1", "llm_2", "llm_3">>

-----------------------------------------------------------------------------
(* Bounds of the environment *)

\* seconds a fast compute call or graph step takes
FastStep == 1
\* seconds a slow graph step takes
SlowStep == 50
\* seconds a compute call takes when it outlasts the LLM deadline
SlowCompute == 61

-----------------------------------------------------------------------------
(* Python values, abstracted to what the code inspects: the type, len(),   *)
(* and for a string len(s.strip()).                                        *)

PyNone == [type |-> "NoneType", len |-> 0, strip |-> 0]
PyStr(n, s) == [type |-> "str", len |-> n, strip |-> s]
PyList(n) == [type |-> "list", len |-> n, strip |-> n]
PyDict(n) == [type |-> "dict", len |-> n, strip |-> n]
PyInt == [type |-> "int", len |-> 0, strip |-> 0]

\* "" : the empty string;  " " : a whitespace-only string
EmptyStr == PyStr(0, 0)
BlankStr == PyStr(1, 0)

Inputs ==
    { PyNone, EmptyStr, BlankStr, PyStr(1, 1),
      PyStr(graph_max_str_len, graph_max_str_len),
      PyStr(graph_max_str_len + 1, graph_max_str_len + 1),
      PyStr(graph_max_str_len + 1, 1),
      PyList(0), PyList(1), PyList(graph_max_list_len), PyList(graph_max_list_len + 1),
      PyDict(0), PyDict(1), PyInt }

\* bool(v)
Truthy(v) ==
    CASE v.type = "NoneType" -> FALSE
      [] v.type \in {"str", "list", "dict"} -> v.len > 0
      [] OTHER -> TRUE

\* str(v): a string is returned as it is; None gives "None"; a list of n items
\* gives "[" items joined by ", " "]" (at least 3n characters, "[]" for n = 0);
\* a dict likewise with "{k: v, ...}" (at least 6n characters, "{}" for n = 0).
PyStrOf(v) ==
    CASE v.type = "str" -> v
      [] v.type = "NoneType" -> PyStr(4, 4)
      [] v.type = "list" -> IF v.len = 0 THEN PyStr(2, 2) ELSE PyStr(3 * v.len, 3 * v.len)
      [] v.type = "dict" -> IF v.len = 0 THEN PyStr(2, 2) ELSE PyStr(6 * v.len, 6 * v.len)
      [] OTHER -> PyStr(1, 1)

-----------------------------------------------------------------------------
(* Exceptions *)

NoError == [type |-> "-", stage |-> "-", attempts |-> 0, cause |-> "-"]

\* Names bound in the namespace of a processor module: its imports and its class.
ProcessorGlobals(k) ==
    IF k = "LLM"
    THEN {"asyncio", "Any", "Dict", "BaseLLMNode", "get_prompts", "Llm_3LLMNode"}
    ELSE {"asyncio", "Any", "Dict", "List", "BaseToolNode", "Llm_2ToolNode"}

\* Methods and attributes an instance of the node class has (the class, its
\* base classes BaseLLMNode / BaseToolNode and BaseNode, and __init__'s fields).
NodeAttributes(k) ==
    {"config", "node_name", "stage", "run", "validate_input", "get_metadata"}
    \cup (IF k = "LLM"
          THEN {"model_config", "prompts", "node_prompts", "call_llm",
                "get_model_info", "_execute_llm_3_llm_logic"}
          ELSE {"available_tools", "execute_tool", "get_tools_info",
                "_execute_llm_2_logic"})

\* Exception types caught by "except (ValueError, TypeError)"
ValidationErrors == {"ValueError", "TypeError"}

-----------------------------------------------------------------------------
(* Node executor: BaseNode and the run() of Llm_3LLMNode / Llm_2ToolNode *)

\* Mutant of validate_input: the shape rules of the graph-level validator
validate_input_shapes(data) ==
    CASE data.type = "NoneType" -> FALSE
      [] data.type = "str" -> data.strip > 0 /\ data.len <= graph_max_str_len
      [] data.type = "dict" -> data.len > 0
      [] data.type = "list" -> data.len > 0 /\ data.len <= graph_max_list_len
      [] OTHER -> TRUE

\* BaseNode.validate_input
validate_input(data) == data.type # "NoneType"

\* Output check of the node contract (non-null). No class under src/ defines
\* validate_output; this operator is reached only where AttrLookup finds it.
validate_output(result) == result.type # "NoneType"

\* self.<name>: "-" when the attribute exists, else the AttributeError raised
AttrLookup(k, name) == IF name \in NodeAttributes(k) THEN "-" ELSE "AttributeError"

\* "raise <name>(...)" inside a processor module: the exception that propagates.
\* An unbound name raises NameError instead of the exception it was to build.
Raise(name, k, stg, n, cause) ==
    IF name \in ProcessorGlobals(k)
    THEN [type |-> name, stage |-> stg, attempts |-> n, cause |-> cause]
    ELSE [type |-> "NameError", stage |-> "-", attempts |-> 0, cause |-> "-"]

\* self.node_name of the two processors under src/
node_name(k) == IF k = "LLM" THEN "llm_3" ELSE "llm_2"

\* retry_delay of run()
retry_delay(k) == IF k = "LLM" THEN llm_retry_delay ELSE tool_retry_delay

\* Mutant of TimeoutDelay: the delay grows with the square of the attempt number
TimeoutDelay_square(base, a) == base * (a + 1) * (a + 1)

\* Mutant of TimeoutDelay: the delay does not grow with the attempt
TimeoutDelay_flat(base, a) == base

\* asyncio.sleep argument after a timeout on attempt a
TimeoutDelay(base, a) == base * (a + 1)

\* Mutant of ErrorDelay: 2 * attempt in place of 2 ** attempt
ErrorDelay_product(base, a) == base * (2 * a)

\* asyncio.sleep argument after another error on attempt a
ErrorDelay(base, a) == base * (2 ^ a)

\* Mutant of NodeClause: no "except (ValueError, TypeError)" clause
NodeClause_no_validation(k, e) ==
    IF k = "LLM" /\ e = "TimeoutError" THEN "timeout" ELSE "other"

\* Which except clause of run() catches exception type e
\* (the tool node has no "except asyncio.TimeoutError" clause)
NodeClause(k, e) ==
    IF e \in ValidationErrors THEN "validation"
    ELSE IF k = "LLM" /\ e = "TimeoutError" THEN "timeout"
    ELSE "other"

\* The except clauses of run() on attempt a for exception type e:
\* either an exception leaves run(), or run() sleeps before the next attempt.
Handle(k, a, e) ==
    CASE NodeClause(k, e) = "validation" ->
           [next |-> "raise", delay |-> 0,
            error |-> Raise("NodeExecutionError", k, node_name(k), 0, e)]
      [] NodeClause(k, e) = "timeout" ->
           IF a = max_retries - 1
           THEN [next |-> "raise", delay |-> 0,
                 error |-> Raise("NodeExecutionError", k, node_name(k), max_retries, e)]
           ELSE [next |-> "sleep", delay |-> TimeoutDelay(retry_delay(k), a),
                 error |-> NoError]
      [] OTHER ->
           IF a = max_retries - 1
           THEN [next |-> "raise", delay |-> 0,
                 error |-> Raise("NodeExecutionError", k, node_name(k), max_retries, e)]
           ELSE [next |-> "sleep", delay |-> ErrorDelay(retry_delay(k), a),
                 error |-> NoError]

\* len() of a stage name of Config.agent_stages ("llm_1", "llm_2", "llm_3")
StageNameLen == 5

\* A compute that returns its input string with its stage name appended
Appended(v) == PyStr(v.len + StageNameLen, v.strip + StageNameLen)

\* What a compute coroutine may do: how long it runs and how it ends.
ComputeDurations == {FastStep, SlowCompute}
ComputeValues ==
    {PyNone, PyDict(1)} \cup (IF n_input.type = "str" THEN {Appended(n_input)} ELSE {})
ComputeErrors == {"ValueError", "TypeError", "TimeoutError", "RuntimeError"}
ComputeEnds ==
    [exc : {"-"}, value : ComputeValues] \cup [exc : ComputeErrors, value : {PyNone}]

\* "await asyncio.wait_for(compute, timeout=60.0)" in the LLM node,
\* "await compute" in the tool node: seconds waited and how the await ends.
Awaited(k, d, o) ==
    IF k = "LLM" /\ d > llm_timeout
    THEN [dur |-> llm_timeout, exc |-> "TimeoutError", value |-> PyNone,
          deadline |-> TRUE]
    ELSE [dur |-> d, exc |-> o.exc, value |-> o.value, deadline |-> FALSE]

Running == [status |-> "running", value |-> PyNone, error |-> NoError]
Returned(v) == [status |-> "returned", value |-> v, error |-> NoError]
Raised(err) == [status |-> "raised", value |-> PyNone, error |-> err]

\* The node-level position as one record, and the two ways an attempt ends
Cur ==
    [npc |-> npc, attempt |-> attempt, computes |-> computes,
     delays |-> delays, fails |-> fails, ends |-> ends, out |-> n_out]

Handled(c, k, e) ==
    LET h == Handle(k, c.attempt, e) IN
    IF h.next = "raise"
    THEN [c EXCEPT !.npc = "done", !.fails = Append(@, e), !.out = Raised(h.error)]
    ELSE [c EXCEPT !.npc = "sleep", !.fails = Append(@, e),
                   !.delays = Append(@, h.delay)]

\* The rest of an attempt once the awaited compute has ended as w
AfterCompute(c, k, w) ==
    LET c2 == [c EXCEPT !.ends = Append(@, [exc |-> w.exc, value |-> w.value,
                                             deadline |-> w.deadline])] IN
    IF w.exc # "-" THEN Handled(c2, k, w.exc)
    ELSE LET e == AttrLookup(k, "validate_output") IN
         IF e # "-" THEN Handled(c2, k, e)
         ELSE IF ~validate_output(w.value) THEN Handled(c2, k, "ValueError")
         ELSE [c2 EXCEPT !.npc = "done", !.out = Returned(w.value)]

-----------------------------------------------------------------------------
(* AgentState and its operations (src/state/state.py) *)

NoneErr == <<>>
NoResults == [s \in {} |-> PyNone]

\* Mutant of initial_state: metadata.attempt is always 1
initial_state_first(input_data, a) ==
    [input |-> input_data,
     messages |-> << <<"human", PyStrOf(input_data)>> >>,
     results |-> NoResults,
     current_stage |-> IF Len(agent_stages) > 0 THEN agent_stages[1] ELSE "-",
     error |-> NoneErr,
     attempt |-> 1]

\* The initial_state dict built by execute() on attempt a (0-based)
initial_state(input_data, a) ==
    [input |-> input_data,
     messages |-> << <<"human", PyStrOf(input_data)>> >>,
     results |-> NoResults,
     current_stage |-> IF Len(agent_stages) > 0 THEN agent_stages[1] ELSE "-",
     error |-> NoneErr,
     attempt |-> a + 1]

set_stage_result(st, stage, result) ==
    [st EXCEPT !.results = [s \in DOMAIN @ \cup {stage} |->
                              IF s = stage THEN result ELSE @[s]]]

add_message(st, message) == [st EXCEPT !.messages = Append(@, message)]

\* Mutant of set_error: an error already set is kept
set_error_keep_first(st, error) ==
    IF st.error # NoneErr THEN st ELSE [st EXCEPT !.error = error]

set_error(st, error) == [st EXCEPT !.error = error]

clear_error(st) == [st EXCEPT !.error = NoneErr]

\* How the graph folds the state a node returns into its channels: messages is
\* declared Annotated[..., add], every other key is overwritten.
MergeUpdate(st, ret) == [ret EXCEPT !.messages = st.messages \o ret.messages]

-----------------------------------------------------------------------------
(* The state functions on objects. An AgentState is a dict object whose      *)
(* "messages" and "results" values are references to a list and a dict       *)
(* object; heap.states, heap.lists and heap.dicts hold the objects and a     *)
(* reference is an index. A function that builds a new object appends it;    *)
(* one that wrote through a reference would change an existing entry.        *)

\* Most AgentState objects the state functions allocate in one behaviour
MaxStateObjects == 4

\* The callers whose calls of the state functions interleave
Calls == {1, 2}

EmptyHeap == [states |-> <<>>, dicts |-> <<>>, lists |-> <<>>]

NoOp == [op |-> "-", call |-> 0, arg |-> 0, ret |-> 0, stage |-> "-", value |-> PyNone]

\* The state object i of heap h with its references followed
ValueIn(h, i) ==
    [h.states[i] EXCEPT !.messages = h.lists[@], !.results = h.dicts[@]]

\* Mutant of create_initial_state_obj: "results" defaults to one dict object
\* shared by every call (the first results dict ever allocated)
create_initial_state_obj_shared(h, input_data) ==
    LET h2 == [h EXCEPT !.lists = Append(@, << <<"human", PyStrOf(input_data)>> >>),
                        !.dicts = IF @ = <<>> THEN <<NoResults>> ELSE @]
    IN [h2 EXCEPT !.states = Append(@,
            [input |-> input_data, messages |-> Len(h2.lists), results |-> 1,
             current_stage |-> "-", error |-> NoneErr, attempt |-> 0])]

\* create_initial_state: a new messages list, a new results dict, a new state
create_initial_state_obj(h, input_data) ==
    LET h2 == [h EXCEPT !.lists = Append(@, << <<"human", PyStrOf(input_data)>> >>),
                        !.dicts = Append(@, NoResults)]
    IN [h2 EXCEPT !.states = Append(@,
            [input |-> input_data, messages |-> Len(h2.lists),
             results |-> Len(h2.dicts), current_stage |-> "-", error |-> NoneErr,
             attempt |-> 0])]

\* update_state: a new state whose every key holds updates.get(key, current[key])
update_state_obj(h, i, updates) ==
    LET current_state == h.states[i] IN
    [h EXCEPT !.states = Append(@,
        [k \in DOMAIN current_state |->
            IF k \in DOMAIN updates THEN updates[k] ELSE current_state[k]])]

\* Mutant of set_stage_result_obj: writes the entry into the results dict of the
\* state it was given
set_stage_result_obj_in_place(h, i, stage, result) ==
    LET r == h.states[i].results
        h2 == [h EXCEPT !.dicts[r] = set_stage_result(ValueIn(h, i), stage, result).results]
    IN update_state_obj(h2, i, [results |-> r])

\* Mutant of set_stage_result_obj: a stage that is not declared is not written
set_stage_result_obj_checked(h, i, stage, result) ==
    LET declared == stage \in {agent_stages[j] : j \in 1..Len(agent_stages)}
        updated_results ==
            IF declared THEN set_stage_result(ValueIn(h, i), stage, result).results
            ELSE h.dicts[h.states[i].results]
        h2 == [h EXCEPT !.dicts = Append(@, updated_results)]
    IN update_state_obj(h2, i, [results |-> Len(h2.dicts)])

\* set_stage_result: copy the results dict, write the entry into the copy
set_stage_result_obj(h, i, stage, result) ==
    LET updated_results == set_stage_result(ValueIn(h, i), stage, result).results
        h2 == [h EXCEPT !.dicts = Append(@, updated_results)]
    IN update_state_obj(h2, i, [results |-> Len(h2.dicts)])

\* add_message: state["messages"] + [message] is a new list
add_message_obj(h, i, message) ==
    LET h2 == [h EXCEPT !.lists = Append(@, add_message(ValueIn(h, i), message).messages)]
    IN update_state_obj(h2, i, [messages |-> Len(h2.lists)])

\* Mutant of set_error_obj: the state returned starts from empty results
set_error_obj_fresh_results(h, i, error) ==
    LET h2 == [h EXCEPT !.dicts = Append(@, NoResults)]
    IN update_state_obj(h2, i, [error |-> error, results |-> Len(h2.dicts)])

\* set_error
set_error_obj(h, i, error) == update_state_obj(h, i, [error |-> error])

\* clear_error
clear_error_obj(h, i) == update_state_obj(h, i, [error |-> NoneErr])

\* The node function built by create_custom_node(stage_name, logic_func), called
\* with state i; logic_func ends as out. The state clear_error returns is dropped.
custom_node(h, i, stage_name, out) ==
    LET h1 == clear_error_obj(h, i)
    IN IF out.exc = "-" THEN set_stage_result_obj(h1, i, stage_name, out.value)
       ELSE set_error_obj(h1, i, <<stage_name, out.exc>>)

\* Arguments the callers pass
StateInputs == {PyStr(1, 1), PyDict(1)}
StageArgs == {"llm_1", "llm_2", "summary"}
ResultArgs == {PyStr(1, 1)}
LogicEnds == {[exc |-> "-", value |-> PyDict(1)], [exc |-> "RuntimeError", value |-> PyNone]}

-----------------------------------------------------------------------------
(* Stage wrappers and the node cache (src/graph/nodes/nodes.py) *)

\* Names Config() binds as attributes
ConfigAttributes ==
    {"project_name", "framework", "runtime_type", "port", "agent_stages",
     "handit_api_key", "model_provider", "model_name",
     "get_model_config", "get_node_tools_config"}

\* module_path built by _get_node_instance: three leading dots, then the package
module_path(name, node_type) ==
    [dots |-> 3, pkg |-> IF node_type = "llm" THEN "nodes.llm" ELSE "nodes.tools",
     node |-> name]

\* __import__(module_path, fromlist=[...]) with the default level 0: an absolute
\* import, so a path that starts with dots names no module.
PyImport(path) == IF path.dots > 0 THEN "ModuleNotFoundError" ELSE "-"

\* node_class(config): BaseLLMNode.__init__ reads config.get_node_model_config,
\* BaseToolNode.__init__ reads config.get_node_tools_config.
Construct(node_type) ==
    LET needed == IF node_type = "llm" THEN "get_node_model_config"
                  ELSE "get_node_tools_config" IN
    IF needed \in ConfigAttributes THEN "-" ELSE "AttributeError"

\* _get_node_instance: the exception it raises ("-" for none) and the cache after
get_node_instance(cache, name, node_type) ==
    LET key == <<name, node_type>> IN
    IF key \in cache THEN [exc |-> "-", cache |-> cache]
    ELSE IF PyImport(module_path(name, node_type)) # "-"
         THEN [exc |-> PyImport(module_path(name, node_type)), cache |-> cache]
    ELSE IF Construct(node_type) # "-"
         THEN [exc |-> Construct(node_type), cache |-> cache]
    ELSE [exc |-> "-", cache |-> cache \cup {key}]

\* get_graph_nodes: node_functions[stage] is assigned the LLM wrapper, then the
\* tool wrapper; the last assignment stays.
NodeFunctionWrites ==
    << <<"llm_1", "llm">>, <<"llm_2", "llm">>, <<"llm_3", "llm">>,
       <<"llm_1", "tool">>, <<"llm_2", "tool">>, <<"llm_3", "tool">> >>

\* Mutant of get_graph_nodes: the first assignment to node_functions[stage] stays
get_graph_nodes_first(stage) ==
    LET idx == {i \in 1..Len(NodeFunctionWrites) : NodeFunctionWrites[i][1] = stage}
        first == CHOOSE i \in idx : \A j \in idx : i <= j
    IN NodeFunctionWrites[first][2]

get_graph_nodes(stage) ==
    LET idx == {i \in 1..Len(NodeFunctionWrites) : NodeFunctionWrites[i][1] = stage}
        last == CHOOSE i \in idx : \A j \in idx : j <= i
    IN NodeFunctionWrites[last][2]

PyIndex(seq, x) == CHOOSE i \in 1..Len(seq) : seq[i] = x /\ \A j \in 1..(i - 1) : seq[j] # x

\* processing_input of a wrapper: the previous stage's result when results is
\* non-empty, the stage is not the first and that result is truthy; else str(input)
processing_input(st, stage) ==
    LET i == PyIndex(agent_stages, stage)
        prev == IF DOMAIN st.results # {} /\ i > 1
                   /\ agent_stages[i - 1] \in DOMAIN st.results
                THEN st.results[agent_stages[i - 1]] ELSE EmptyStr
    IN IF Truthy(prev) THEN prev ELSE PyStrOf(st.input)

\* The wrapper after node_instance.run() ended as out: the state it returns
WrapperAfterRun(st, stage, out) ==
    IF out.status = "returned"
    THEN add_message(set_stage_result(st, stage, out.value), <<"ai", stage>>)
    ELSE set_error(st, <<stage, out.error.type>>)

\* Mutant of get_next_stage: route to END once a stage has set error
get_next_stage_stop_on_error(st) == IF st.error # NoneErr THEN "end" ELSE "continue"

\* _get_next_stage
get_next_stage(st) == "continue"

\* Mutant of NextStage: the conditional edge of stage i leads to stage i + 2
NextStage_skip(i, st) ==
    IF i + 1 < Len(agent_stages) THEN i + 2 ELSE Len(agent_stages) + 1

\* Index of the stage the graph runs after stage i (Len + 1 stands for END)
NextStage(i, st) ==
    IF i < Len(agent_stages)
    THEN (IF get_next_stage(st) = "continue" THEN i + 1 ELSE Len(agent_stages) + 1)
    ELSE Len(agent_stages) + 1

-----------------------------------------------------------------------------
(* Graph engine: CustomAgentGraph.execute (src/graph/main.py) *)

\* Mutant of _validate_graph_input: len(input_data) in place of len(input_data.strip())
validate_graph_input_no_strip(input_data) ==
    CASE input_data.type = "NoneType" -> FALSE
      [] input_data.type = "str" ->
           input_data.len > 0 /\ input_data.len <= graph_max_str_len
      [] input_data.type = "dict" -> input_data.len > 0
      [] input_data.type = "list" ->
           input_data.len > 0 /\ input_data.len <= graph_max_list_len
      [] OTHER -> TRUE

\* _validate_graph_input
validate_graph_input(input_data) ==
    CASE input_data.type = "NoneType" -> FALSE
      [] input_data.type = "str" ->
           input_data.strip > 0 /\ input_data.len <= graph_max_str_len
      [] input_data.type = "dict" -> input_data.len > 0
      [] input_data.type = "list" ->
           input_data.len > 0 /\ input_data.len <= graph_max_list_len
      [] OTHER -> TRUE

\* Results of graph.ainvoke: [type, keys]; the final AgentState is a dict with
\* every key of the state schema.
StateKeys == {"input", "messages", "context", "results", "current_stage",
              "error", "metadata"}
StateResult == [type |-> "dict", keys |-> StateKeys]
NoneResult == [type |-> "NoneType", keys |-> {}]
AinvokeResults ==
    {StateResult, NoneResult, [type |-> "dict", keys |-> {}],
     [type |-> "dict", keys |-> {"messages"}], [type |-> "list", keys |-> {}]}

\* _validate_graph_output
validate_graph_output(result) ==
    IF result.type = "NoneType" THEN FALSE
    ELSE IF result.type = "dict"
         THEN "results" \in result.keys \/ "messages" \in result.keys
    ELSE TRUE

\* Mutant of MainGlobals: the module does not define GraphExecutionError
MainGlobals_no_error_class ==
    {"asyncio", "Config", "AgentState", "get_graph_nodes", "CustomAgentGraph",
     "create_graph"}

\* Names bound in graph/main.py that execute() raises
MainGlobals == {"GraphExecutionError", "asyncio", "Config", "AgentState",
                "get_graph_nodes", "CustomAgentGraph", "create_graph"}

GraphRaise(name, n, cause) ==
    IF name \in MainGlobals
    THEN [type |-> name, stage |-> "-", attempts |-> n, cause |-> cause]
    ELSE [type |-> "NameError", stage |-> "-", attempts |-> 0, cause |-> "-"]

\* Mutant of GraphClause: no "except (ValueError, TypeError)" clause
GraphClause_no_validation(e) == IF e = "TimeoutError" THEN "timeout" ELSE "other"

\* Mutant of GraphClause: the first clause also catches asyncio.TimeoutError
GraphClause_timeout_terminal(e) ==
    IF e \in ValidationErrors \cup {"TimeoutError"} THEN "validation" ELSE "other"

\* Which except clause of execute() catches exception type e
GraphClause(e) ==
    IF e \in ValidationErrors THEN "validation"
    ELSE IF e = "TimeoutError" THEN "timeout"
    ELSE "other"

\* Mutant of GraphHandle: the last attempt sleeps and goes round the loop too
GraphHandle_sleeps_on_last(a, e) ==
    IF GraphClause(e) = "validation"
    THEN [next |-> "raise", delay |-> 0,
          error |-> GraphRaise("GraphExecutionError", 0, e)]
    ELSE [next |-> "sleep", delay |-> ErrorDelay(graph_retry_delay, a),
          error |-> NoError]

\* The except clauses of execute() on attempt a for exception type e
GraphHandle(a, e) ==
    CASE GraphClause(e) = "validation" ->
           [next |-> "raise", delay |-> 0,
            error |-> GraphRaise("GraphExecutionError", 0, e)]
      [] GraphClause(e) = "timeout" ->
           IF a = graph_max_retries - 1
           THEN [next |-> "raise", delay |-> 0,
                 error |-> GraphRaise("GraphExecutionError", graph_max_retries, e)]
           ELSE [next |-> "sleep", delay |-> TimeoutDelay(graph_retry_delay, a),
                 error |-> NoError]
      [] OTHER ->
           IF a = graph_max_retries - 1
           THEN [next |-> "raise", delay |-> 0,
                 error |-> GraphRaise("GraphExecutionError", graph_max_retries, e)]
           ELSE [next |-> "sleep", delay |-> ErrorDelay(graph_retry_delay, a),
                 error |-> NoError]

\* Exceptions the compiled graph itself may raise out of ainvoke
AinvokeErrors == {"ValueError", "TypeError", "RuntimeError"}

\* Seconds one graph step (scheduling, checkpoint write) may take
StepDurations == {FastStep, SlowStep}

-----------------------------------------------------------------------------
(* Graph construction (src/graph/main.py). A StateGraph is modelled by what   *)
(* the builder puts into it: its nodes, its plain edges <<from, to>> and its  *)
(* conditional edges [from, continue, end].                                   *)

START == "__start__"
END == "__end__"

\* Longest stage list a graph is built from
MaxStages == 4

\* Stage names, the first three being those of Config.agent_stages
StagePool == <<"llm_1", "llm_2", "llm_3", "llm_4", "llm_5", "llm_6">>

\* Stage lists with distinct names
StageLists == {SubSeq(StagePool, 1, n) : n \in 0..MaxStages}

EmptyGraph == [nodes |-> {}, edges |-> {}, branches |-> {}]

\* Mutant of add_pipeline_edges: no edge from the last stage to END
add_pipeline_edges_no_end(g, stages) ==
    [g EXCEPT !.edges = @ \cup {<<stages[i], stages[i + 1]>> : i \in 1..(Len(stages) - 1)}]

\* _add_pipeline_edges
add_pipeline_edges(g, stages) ==
    [g EXCEPT !.edges =
        @ \cup {<<stages[i], stages[i + 1]>> : i \in 1..(Len(stages) - 1)}
          \cup (IF Len(stages) > 0 THEN {<<stages[Len(stages)], END>>} ELSE {})]

\* _add_router_edges
add_router_edges(g, stages) ==
    IF Len(stages) >= 2
    THEN [g EXCEPT !.edges = @ \cup {<<stages[1], stages[2]>>}
                                \cup {<<stages[i], END>> : i \in 2..Len(stages)}]
    ELSE g

\* Mutant of add_state_graph_edges: the two targets of each conditional edge swapped
add_state_graph_edges_swapped(g, stages) ==
    IF Len(stages) = 0 THEN g
    ELSE [g EXCEPT
            !.edges = @ \cup {<<START, stages[1]>>, <<stages[Len(stages)], END>>},
            !.branches = @ \cup {[from |-> stages[i], continue |-> END,
                                  end |-> stages[i + 1]] : i \in 1..(Len(stages) - 1)}]

\* _add_state_graph_edges
add_state_graph_edges(g, stages) ==
    IF Len(stages) = 0 THEN g
    ELSE [g EXCEPT
            !.edges = @ \cup {<<START, stages[1]>>, <<stages[Len(stages)], END>>},
            !.branches = @ \cup {[from |-> stages[i], continue |-> stages[i + 1],
                                  end |-> END] : i \in 1..(Len(stages) - 1)}]

\* Keys of node_functions in get_graph_nodes
NodeFunctions == {NodeFunctionWrites[i][1] : i \in 1..Len(NodeFunctionWrites)}

\* The nodes _build_graph adds: the stages get_graph_nodes has a function for
add_nodes(g, stages) ==
    [g EXCEPT !.nodes = {stages[i] : i \in 1..Len(stages)} \cap NodeFunctions]

\* The graph built for a stage list in one of the three orchestration styles
build_edges(stages, style) ==
    LET g == add_nodes(EmptyGraph, stages) IN
    CASE style = "pipeline" -> add_pipeline_edges(g, stages)
      [] style = "router" -> add_router_edges(g, stages)
      [] OTHER -> add_state_graph_edges(g, stages)

\* The nodes the compiled graph goes to from node n with state st: the target
\* its conditional edge selects through _get_next_stage, and its plain edges
Successors(g, n, st) ==
    {e[2] : e \in {x \in g.edges : x[1] = n}}
    \cup {IF get_next_stage(st) = "continue" THEN b.continue ELSE b.end :
            b \in {x \in g.branches : x.from = n}}

\* The nodes visited after node n, END included, for as long as the node
\* reached has a single successor
RECURSIVE Walk(_, _, _, _)
Walk(g, n, st, fuel) ==
    IF fuel = 0 \/ n = END \/ Cardinality(Successors(g, n, st)) # 1 THEN <<>>
    ELSE LET t == CHOOSE x \in Successors(g, n, st) : TRUE
         IN <<t>> \o Walk(g, t, st, fuel - 1)

\* States a routing function is asked about: no error, and an error set by a stage
RoutingStates == {[error |-> NoneErr], [error |-> <<"llm_1", "ImportError">>]}

\* Nodes reachable from the nodes seen along plain and conditional edges
RECURSIVE ReachableFrom(_, _, _)
ReachableFrom(g, seen, fuel) ==
    LET more == seen \cup {e[2] : e \in {x \in g.edges : x[1] \in seen}}
                     \cup {b.continue : b \in {x \in g.branches : x.from \in seen}}
                     \cup {b.end : b \in {x \in g.branches : x.from \in seen}}
    IN IF fuel = 0 \/ more = seen THEN seen ELSE ReachableFrom(g, more, fuel - 1)

-----------------------------------------------------------------------------
(* Thread configurations and the checkpointer (src/checkpoints/checkpointer.py). *)
(* A string is the sequence of its characters; an optional argument is           *)
(* [given, chars], given = FALSE standing for None.                              *)

NoneArg == [given |-> FALSE, chars |-> <<>>]
StrArg(chars) == [given |-> TRUE, chars |-> chars]

\* bool(s) of an optional string
TruthyArg(a) == a.given /\ Len(a.chars) > 0

user_prefix == <<"u", "s", "e", "r", "_">>
session_infix == <<"_", "s", "e", "s", "s", "i", "o", "n", "_">>
version_infix == <<"_", "v">>
default_version == <<"v", "1", ".", "0", ".", "0">>

\* thread_id of get_thread_config(user_id, session_id)
get_thread_config(user_id, session_id) ==
    IF TruthyArg(session_id)
    THEN user_prefix \o user_id.chars \o session_infix \o session_id.chars
    ELSE user_prefix \o user_id.chars

\* Mutant of get_versioned_thread_config: the version is not appended
get_versioned_thread_config_unversioned(user_id, version, session_id) ==
    get_thread_config(user_id, session_id)

\* thread_id of get_versioned_thread_config(user_id, version, session_id)
get_versioned_thread_config(user_id, version, session_id) ==
    LET base_thread_id == IF TruthyArg(session_id)
                          THEN user_prefix \o user_id.chars \o session_infix
                                 \o session_id.chars
                          ELSE user_prefix \o user_id.chars
        v == IF version.given THEN version.chars ELSE default_version
    IN base_thread_id \o version_infix \o v

alice == StrArg(<<"a", "l", "i", "c", "e">>)
UserIds ==
    {alice, StrArg(<<"b">>),
     StrArg(<<"b", "_", "s", "e", "s", "s", "i", "o", "n", "_", "s", "1">>)}
SessionIds == {NoneArg, StrArg(<<>>), StrArg(<<"s", "1">>)}
Versions == {NoneArg, StrArg(<<"v", "2">>), StrArg(<<"2">>)}

NoThread == [fn |-> "-", user_id |-> NoneArg, session_id |-> NoneArg,
             version |-> NoneArg, thread_id |-> <<>>]

\* Values of the environment variable ENABLE_CHECKPOINTER ("unset": not set)
EnvValues == {"unset", "true", "false", "False", "FALSE", "0"}

\* os.getenv(name, default)
Getenv(value, default) == IF value = "unset" THEN default ELSE value

\* str.lower() on the values above
PyLower(v) ==
    CASE v \in {"false", "False", "FALSE"} -> "false"
      [] OTHER -> v

\* How SqliteSaver.from_conn_string(db_path) ends
SqliteOutcomes == {"ok", "raises"}

\* Mutant of create_checkpointer: no fallback when the SQLite store cannot be built
create_checkpointer_no_fallback(env, sqlite) ==
    IF PyLower(Getenv(env, "true")) = "false" THEN "None"
    ELSE IF sqlite = "ok" THEN "SqliteSaver" ELSE "None"

\* create_checkpointer
create_checkpointer(env, sqlite) ==
    IF PyLower(Getenv(env, "true")) = "false" THEN "None"
    ELSE IF sqlite = "ok" THEN "SqliteSaver" ELSE "MemorySaver"

\* Mutant of is_enabled: always true
is_enabled_always(checkpointer) == "True"

\* CheckpointerManager.is_enabled ("True" / "False": the bool returned)
is_enabled(checkpointer) == IF checkpointer # "None" THEN "True" ELSE "False"

\* enabled: what is_enabled() returned, "-" before it is called
NoManager == [env |-> "-", sqlite |-> "-", checkpointer |-> "-", enabled |-> "-"]

\* The config argument of a graph.ainvoke call: [passed, thread_id]
NoConfig == [passed |-> FALSE, thread_id |-> <<>>]

\* Environments in which the graph of execute() is constructed
ExecEnvs == {"unset", "false"}

NoEngine == [checkpointer |-> "-", configs |-> <<>>]

-----------------------------------------------------------------------------
(* Use-case executor (src/scaffold/python/generators/templates/base/utils/   *)
(* use_case_executor.py). A dict is modelled as the sequence of its          *)
(* <<key, value>> items in insertion order (expected_output) or as a         *)
(* function from its keys (the agent's output); a message is what it is      *)
(* built from: [kind, key].                                                  *)

UcKeys == {"status", "id"}
UcValues == {"x", "y"}

\* expected_output dicts: items with distinct keys, in insertion order
ExpectedDicts ==
    {e \in UNION {[1..n -> UcKeys \X UcValues] : n \in 0..Cardinality(UcKeys)} :
        \A i, j \in DOMAIN e : i # j => e[i][1] # e[j][1]}

\* use_case.get('expected_output', None)
NoExpected == [given |-> FALSE, items |-> <<>>]
ExpectedOutputs == {NoExpected} \cup {[given |-> TRUE, items |-> e] : e \in ExpectedDicts}

\* What agent.execute(input_data) returns: a dict or None
UcNone == [type |-> "NoneType", items |-> [k \in {} |-> "x"]]
AgentOutputs ==
    {UcNone} \cup {[type |-> "dict", items |-> f] :
                     f \in UNION {[ks -> UcValues] : ks \in SUBSET UcKeys}}

\* How agent.execute(input_data) ends: [exc, output]
AgentEnds ==
    {[exc |-> "-", output |-> o] : o \in AgentOutputs}
    \cup {[exc |-> "RuntimeError", output |-> UcNone]}

\* use_case.get('expected_behavior', None): no checks, or one list of checks
NoBehavior == [given |-> FALSE, checks |-> <<>>]
ExpectedBehaviors ==
    {NoBehavior, [given |-> TRUE, checks |-> <<>>],
     [given |-> TRUE, checks |-> <<[type |-> "is_dict", value |-> "-"]>>],
     [given |-> TRUE, checks |-> <<[type |-> "is_dict", value |-> "-"],
                                  [type |-> "has_key", value |-> "id"]>>]}

UcPassed(message) == [passed |-> TRUE, kind |-> message, key |-> "-"]
UcFailed(message, key) == [passed |-> FALSE, kind |-> message, key |-> key]
NotRun == [passed |-> TRUE, kind |-> "-", key |-> "-"]

\* Mutant of uc_validate_items: a missing key is skipped
RECURSIVE uc_validate_items_lenient(_, _, _)
uc_validate_items_lenient(actual_output, items, i) ==
    IF i > Len(items) THEN UcPassed("Output validation passed")
    ELSE IF actual_output.type = "NoneType"
    THEN UcFailed("Validation error", "-")
    ELSE IF items[i][1] \notin DOMAIN actual_output.items
    THEN uc_validate_items_lenient(actual_output, items, i + 1)
    ELSE IF actual_output.items[items[i][1]] # items[i][2]
    THEN UcFailed("Value mismatch for key", items[i][1])
    ELSE uc_validate_items_lenient(actual_output, items, i + 1)

\* _validate_output, dict branch: the loop over expected_output.items() from
\* item i on; `key not in None` raises TypeError, which the except clause
\* turns into a validation error
RECURSIVE uc_validate_items(_, _, _)
uc_validate_items(actual_output, items, i) ==
    IF i > Len(items) THEN UcPassed("Output validation passed")
    ELSE IF actual_output.type = "NoneType"
    THEN UcFailed("Validation error", "-")
    ELSE IF items[i][1] \notin DOMAIN actual_output.items
    THEN UcFailed("Missing expected key", items[i][1])
    ELSE IF actual_output.items[items[i][1]] # items[i][2]
    THEN UcFailed("Value mismatch for key", items[i][1])
    ELSE uc_validate_items(actual_output, items, i + 1)

\* _validate_output for a dict expectation
uc_validate_output(actual_output, expected_output) ==
    uc_validate_items(actual_output, expected_output.items, 1)

\* _check_behavior for the check types is_dict and has_key
RECURSIVE uc_check_behavior(_, _, _)
uc_check_behavior(output, checks, i) ==
    IF i > Len(checks) THEN UcPassed("All behavior checks passed")
    ELSE IF checks[i].type = "is_dict" /\ output.type # "dict"
    THEN UcFailed("output is not a dictionary", "-")
    ELSE IF /\ checks[i].type = "has_key"
            /\ (output.type # "dict" \/ checks[i].value \notin DOMAIN output.items)
    THEN UcFailed("output does not have key", checks[i].value)
    ELSE uc_check_behavior(output, checks, i + 1)

\* execute_use_case
execute_use_case(expected_output, expected_behavior, agent_end) ==
    IF agent_end.exc # "-"
    THEN [status |-> "error", output |-> UcNone, validation |-> NotRun,
          behavior_check |-> NotRun]
    ELSE LET result == agent_end.output
             validation_result ==
                 IF expected_output.given
                 THEN uc_validate_output(result, expected_output) ELSE NotRun
             behavior_result ==
                 IF expected_behavior.given
                 THEN uc_check_behavior(result, expected_behavior.checks, 1)
                 ELSE NotRun
         IN [status |-> IF ~behavior_result.passed THEN "behavior_failed"
                        ELSE IF ~validation_result.passed THEN "validation_failed"
                        ELSE "success",
             output |-> result, validation |-> validation_result,
             behavior_check |-> behavior_result]

NoReport == [ran |-> FALSE, expected_output |-> NoExpected,
             expected_behavior |-> NoBehavior,
             result |-> [status |-> "-", output |-> UcNone, validation |-> NotRun,
                         behavior_check |-> NotRun]]

-----------------------------------------------------------------------------
(* Time: the only deadline that spans several awaits is the wait_for around *)
(* graph.ainvoke, so the clock runs inside execute() only.                  *)

Fits(d) == mode # "execute" \/ elapsed + d <= graph_timeout
Tick(d) == IF mode = "execute" THEN elapsed + d ELSE elapsed

GRunning == [status |-> "running", result |-> NoneResult, error |-> NoError]
GReturned(r) == [status |-> "returned", result |-> r, error |-> NoError]
GRaised(err) == [status |-> "raised", result |-> NoneResult, error |-> err]

-----------------------------------------------------------------------------
(* Actions of a node's run() *)

\* The driver calls run(inp) on a node of kind k
CallRun(k, inp) ==
    /\ UNCHANGED <<obj_vars, aux_vars, engine>>
    /\ mode = "idle"
    /\ mode' = "run"
    /\ npc' = "attempt"
    /\ kind' = k
    /\ n_input' = inp
    /\ UNCHANGED <<attempt, computes, delays, fails, ends, n_out, graph_vars,
                   node_instances>>

\* run() moves to node-level position t after waiting dur seconds. When run()
\* was called by a stage wrapper and ends, the wrapper returns its state and the
\* graph folds it in and routes to the next stage.
NodeGoes(t, dur) ==
    /\ UNCHANGED <<obj_vars, aux_vars, engine>>
    /\ Fits(dur)
    /\ elapsed' = Tick(dur)
    /\ attempt' = t.attempt
    /\ computes' = t.computes
    /\ delays' = t.delays
    /\ fails' = t.fails
    /\ ends' = t.ends
    /\ n_out' = t.out
    /\ IF t.npc = "done" /\ mode = "execute"
       THEN /\ npc' = "none"
            /\ state' = MergeUpdate(state,
                          WrapperAfterRun(state, agent_stages[stage_idx], t.out))
            /\ stage_idx' = NextStage(stage_idx, state')
            /\ stage_ends' = Append(stage_ends,
                                [stage |-> agent_stages[stage_idx],
                                 wrapper |-> IF kind = "LLM" THEN "llm" ELSE "tool",
                                 exc |-> IF t.out.status = "returned" THEN "-"
                                         ELSE t.out.error.type])
       ELSE /\ npc' = t.npc
            /\ UNCHANGED <<state, stage_idx, stage_ends>>
    /\ UNCHANGED <<mode, kind, n_input, gpc, g_input, g_attempt, g_delays,
                   g_fails, g_ends, invoked, g_out, node_instances>>

\* Top of the loop body: validate the input, then start the compute coroutine
NodeAttempt ==
    /\ npc = "attempt"
    /\ IF attempt >= max_retries
       THEN NodeGoes([Cur EXCEPT !.npc = "done",
                        !.out = Raised(Raise("NodeExecutionError", kind,
                                             node_name(kind), 0, "-"))], 0)
       ELSE IF ~validate_input(n_input)
            THEN NodeGoes(Handled(Cur, kind, "ValueError"), 0)
            ELSE NodeGoes([Cur EXCEPT !.npc = "compute", !.computes = @ + 1], 0)

\* The awaited compute ends (or its deadline passes); output check and except clauses
NodeCompute ==
    /\ npc = "compute"
    /\ \E d \in ComputeDurations, o \in ComputeEnds :
         LET w == Awaited(kind, d, o) IN
         NodeGoes(AfterCompute(Cur, kind, w), w.dur)

\* The backoff sleep ends; next iteration of the loop
NodeSleep ==
    /\ npc = "sleep"
    /\ NodeGoes([Cur EXCEPT !.npc = "attempt", !.attempt = @ + 1],
                delays[Len(delays)])

-----------------------------------------------------------------------------
(* Actions of execute() *)

\* The driver constructs the graph (create_graph, which compiles it with the
\* checkpointer _get_checkpointer returns) and calls execute(inp)
CallExecute(inp, env) ==
    /\ UNCHANGED <<obj_vars, aux_vars>>
    /\ mode = "idle"
    /\ engine' = [checkpointer |-> create_checkpointer(env, "ok"), configs |-> <<>>]
    /\ mode' = "execute"
    /\ gpc' = "attempt"
    /\ g_input' = inp
    /\ UNCHANGED <<node_vars, g_attempt, g_delays, g_fails, g_ends, stage_idx,
                   state, invoked, stage_ends, elapsed, g_out, node_instances>>

\* An exception of type e reaches the except clauses of execute()
ExecFails(e) ==
    LET h == GraphHandle(g_attempt, e) IN
    /\ g_fails' = Append(g_fails, e)
    /\ IF h.next = "raise"
       THEN /\ gpc' = "done"
            /\ g_out' = GRaised(h.error)
            /\ g_delays' = g_delays
       ELSE /\ gpc' = "sleep"
            /\ g_delays' = Append(g_delays, h.delay)
            /\ g_out' = g_out
    /\ UNCHANGED <<mode, g_input, g_attempt, stage_idx, state, invoked, stage_ends>>

\* Top of the loop body: validate the input, build initial_state, start ainvoke
ExecAttempt ==
    /\ UNCHANGED <<obj_vars, aux_vars>>
    /\ gpc = "attempt"
    /\ IF g_attempt >= graph_max_retries
       THEN /\ gpc' = "done"
            /\ g_out' = GRaised(GraphRaise("GraphExecutionError", 0, "-"))
            /\ UNCHANGED <<mode, g_input, g_attempt, g_delays, g_fails, g_ends,
                           stage_idx, state, invoked, stage_ends, elapsed, engine>>
       ELSE IF ~validate_graph_input(g_input)
            THEN ExecFails("ValueError") /\ UNCHANGED <<elapsed, g_ends, engine>>
            ELSE /\ gpc' = "traverse"
                 /\ engine' = [engine EXCEPT !.configs = Append(@, NoConfig)]
                 /\ state' = initial_state(g_input, g_attempt)
                 /\ stage_idx' = 1
                 /\ stage_ends' = <<>>
                 /\ elapsed' = 0
                 /\ UNCHANGED <<mode, g_input, g_attempt, g_delays, g_fails,
                                g_ends, invoked, g_out>>
    /\ UNCHANGED <<node_vars, node_instances>>

\* One graph step: after d seconds the wrapper of the next stage is invoked. It
\* asks _get_node_instance for its node; an exception there is caught by the
\* wrapper's "except Exception" and becomes state.error, else the wrapper awaits
\* node_instance.run(processing_input).
StageStep(d) ==
    /\ UNCHANGED <<obj_vars, aux_vars, engine>>
    /\ gpc = "traverse"
    /\ npc = "none"
    /\ stage_idx <= Len(agent_stages)
    /\ Fits(d)
    /\ LET stage == agent_stages[stage_idx]
           wtype == get_graph_nodes(stage)
           g == get_node_instance(node_instances, stage, wtype)
       IN /\ invoked' = Append(invoked, stage)
          /\ node_instances' = g.cache
          /\ elapsed' = elapsed + d
          /\ IF g.exc # "-"
             THEN /\ state' = MergeUpdate(state, set_error(state, <<stage, g.exc>>))
                  /\ stage_idx' = NextStage(stage_idx, state')
                  /\ stage_ends' = Append(stage_ends, [stage |-> stage, wrapper |-> wtype,
                                                       exc |-> g.exc])
                  /\ UNCHANGED node_vars
             ELSE /\ npc' = "attempt"
                  /\ kind' = (IF wtype = "llm" THEN "LLM" ELSE "TOOL")
                  /\ n_input' = processing_input(state, stage)
                  /\ attempt' = 0
                  /\ computes' = 0
                  /\ delays' = <<>>
                  /\ fails' = <<>>
                  /\ ends' = <<>>
                  /\ n_out' = Running
                  /\ UNCHANGED <<state, stage_idx, stage_ends>>
    /\ UNCHANGED <<mode, gpc, g_input, g_attempt, g_delays, g_fails, g_ends,
                   g_out>>

\* The compiled graph raises an exception of its own out of ainvoke
AinvokeRaises(e) ==
    /\ UNCHANGED <<obj_vars, aux_vars, engine>>
    /\ gpc = "traverse"
    /\ npc = "none"
    /\ g_ends' = Append(g_ends, [exc |-> e, result |-> NoneResult, deadline |-> FALSE])
    /\ ExecFails(e)
    /\ UNCHANGED <<node_vars, elapsed, node_instances>>

\* ainvoke returns after the last stage; the result is validated
AinvokeReturns(r) ==
    /\ UNCHANGED <<obj_vars, aux_vars, engine>>
    /\ gpc = "traverse"
    /\ npc = "none"
    /\ stage_idx > Len(agent_stages)
    /\ g_ends' = Append(g_ends, [exc |-> "-", result |-> r, deadline |-> FALSE])
    /\ IF validate_graph_output(r)
       THEN /\ gpc' = "done"
            /\ g_out' = GReturned(r)
            /\ UNCHANGED <<mode, g_input, g_attempt, g_delays, g_fails, stage_idx,
                           state, invoked, stage_ends>>
       ELSE ExecFails("ValueError")
    /\ UNCHANGED <<node_vars, elapsed, node_instances>>

\* Seconds the await in flight inside the traversal may still take
PendingDurations ==
    IF npc = "compute"
    THEN {Awaited(kind, d, o).dur : d \in ComputeDurations, o \in ComputeEnds}
    ELSE IF npc = "sleep" THEN {delays[Len(delays)]}
    ELSE IF npc = "none" /\ stage_idx <= Len(agent_stages) THEN StepDurations
    ELSE {}

\* The wait_for around ainvoke expires: the traversal is cancelled (whatever
\* await it is in) and asyncio.TimeoutError is raised into execute()
OuterDeadline ==
    /\ UNCHANGED <<obj_vars, aux_vars, engine>>
    /\ gpc = "traverse"
    /\ \E d \in PendingDurations : elapsed + d >= graph_timeout
    /\ elapsed' = graph_timeout
    /\ npc' = "none"
    /\ g_ends' = Append(g_ends, [exc |-> "TimeoutError", result |-> NoneResult,
                                  deadline |-> TRUE])
    /\ ExecFails("TimeoutError")
    /\ UNCHANGED <<kind, n_input, attempt, computes, delays, fails, ends, n_out,
                   node_instances>>

\* The backoff sleep of execute() ends; next iteration of the loop
ExecSleep ==
    /\ UNCHANGED <<obj_vars, aux_vars, engine>>
    /\ gpc = "sleep"
    /\ gpc' = "attempt"
    /\ g_attempt' = g_attempt + 1
    /\ UNCHANGED <<mode, node_vars, g_input, g_delays, g_fails, g_ends, stage_idx,
                   state, invoked, stage_ends, elapsed, g_out, node_instances>>

-----------------------------------------------------------------------------
(* Actions of callers of the state functions *)

\* A call by caller c ended with heap h2: the state it returned is the last
\* allocated; the caller rebinds its "state" variable to it
StateCallEnds(c, h2, op) ==
    /\ Len(h2.states) <= MaxStateObjects
    /\ mode' = "state"
    /\ heap' = h2
    /\ cur' = [cur EXCEPT ![c] = Len(h2.states)]
    /\ owner' = [i \in 1..Len(h2.states) |-> IF i <= Len(owner) THEN owner[i] ELSE c]
    /\ last_op' = [op EXCEPT !.call = c, !.arg = cur[c], !.ret = Len(h2.states)]
    /\ UNCHANGED <<node_vars, graph_vars, node_instances, aux_vars, engine>>

\* state = create_initial_state(inp)
CreateState(c, inp) ==
    /\ mode \in {"idle", "state"}
    /\ cur[c] = 0
    /\ StateCallEnds(c, create_initial_state_obj(heap, inp),
                     [NoOp EXCEPT !.op = "create_initial_state", !.value = inp])

\* state = set_stage_result(state, stage, result)
SetStageResult(c, stage, result) ==
    /\ mode = "state"
    /\ cur[c] # 0
    /\ StateCallEnds(c, set_stage_result_obj(heap, cur[c], stage, result),
                     [NoOp EXCEPT !.op = "set_stage_result", !.stage = stage,
                                  !.value = result])

\* state = add_message(state, message)
AddMessage(c) ==
    /\ mode = "state"
    /\ cur[c] # 0
    /\ StateCallEnds(c, add_message_obj(heap, cur[c], <<"ai", "-">>),
                     [NoOp EXCEPT !.op = "add_message"])

\* state = set_error(state, error)
SetError(c) ==
    /\ mode = "state"
    /\ cur[c] # 0
    /\ StateCallEnds(c, set_error_obj(heap, cur[c], <<"-", "RuntimeError">>),
                     [NoOp EXCEPT !.op = "set_error"])

\* state = clear_error(state)
ClearError(c) ==
    /\ mode = "state"
    /\ cur[c] # 0
    /\ StateCallEnds(c, clear_error_obj(heap, cur[c]),
                     [NoOp EXCEPT !.op = "clear_error"])

\* state = await custom_node(state), custom_node built by create_custom_node
CustomNode(c, stage, out) ==
    /\ mode = "state"
    /\ cur[c] # 0
    /\ StateCallEnds(c, custom_node(heap, cur[c], stage, out),
                     [NoOp EXCEPT !.op = "custom_node", !.stage = stage,
                                  !.value = out.value])

-----------------------------------------------------------------------------
(* Actions of the graph builder, the thread configurations and the manager *)

\* A StateGraph gets the nodes of a stage list and the edges of one style
BuildEdges(stages, style) ==
    /\ mode \in {"idle", "build"}
    /\ mode' = "build"
    /\ graph' = [stages |-> stages, style |-> style] @@ build_edges(stages, style)
    /\ UNCHANGED <<node_vars, graph_vars, node_instances, obj_vars, thread, manager,
                   engine, prev_thread, report>>

\* get_thread_config(user_id, session_id)
GetThreadConfig(user_id, session_id) ==
    /\ mode \in {"idle", "thread"}
    /\ mode' = "thread"
    /\ thread' = [fn |-> "get_thread_config", user_id |-> user_id,
                  session_id |-> session_id, version |-> NoneArg,
                  thread_id |-> get_thread_config(user_id, session_id)]
    /\ UNCHANGED <<node_vars, graph_vars, node_instances, obj_vars, graph, manager,
                   engine, report>>
    /\ prev_thread' = thread

\* get_versioned_thread_config(user_id, version, session_id)
GetVersionedThreadConfig(user_id, version, session_id) ==
    /\ mode \in {"idle", "thread"}
    /\ mode' = "thread"
    /\ thread' = [fn |-> "get_versioned_thread_config", user_id |-> user_id,
                  session_id |-> session_id, version |-> version,
                  thread_id |-> get_versioned_thread_config(user_id, version,
                                                            session_id)]
    /\ UNCHANGED <<node_vars, graph_vars, node_instances, obj_vars, graph, manager,
                   engine, report>>
    /\ prev_thread' = thread

\* CheckpointerManager()
NewCheckpointerManager(env, sqlite) ==
    /\ mode \in {"idle", "manager"}
    /\ mode' = "manager"
    /\ manager' = [env |-> env, sqlite |-> sqlite,
                   checkpointer |-> create_checkpointer(env, sqlite), enabled |-> "-"]
    /\ UNCHANGED <<node_vars, graph_vars, node_instances, obj_vars, graph, thread,
                   engine, prev_thread, report>>

\* manager.is_enabled()
IsEnabled ==
    /\ mode = "manager"
    /\ manager.enabled = "-"
    /\ manager' = [manager EXCEPT !.enabled = is_enabled(manager.checkpointer)]
    /\ UNCHANGED <<mode, node_vars, graph_vars, node_instances, obj_vars, graph, thread,
                   engine, prev_thread, report>>

\* UseCaseExecutor.execute_use_case(use_case)
ExecuteUseCase(expected_output, expected_behavior, agent_end) ==
    /\ mode \in {"idle", "use_case"}
    /\ mode' = "use_case"
    /\ report' = [ran |-> TRUE, expected_output |-> expected_output,
                  expected_behavior |-> expected_behavior,
                  result |-> execute_use_case(expected_output, expected_behavior,
                                              agent_end)]
    /\ UNCHANGED <<node_vars, graph_vars, node_instances, obj_vars, graph, thread,
                   manager, engine, prev_thread>>

-----------------------------------------------------------------------------

Init ==
    /\ mode = "idle"
    /\ npc = "none"
    /\ kind = "-"
    /\ n_input = PyNone
    /\ attempt = 0
    /\ computes = 0
    /\ delays = <<>>
    /\ fails = <<>>
    /\ ends = <<>>
    /\ n_out = Running
    /\ gpc = "none"
    /\ g_input = PyNone
    /\ g_attempt = 0
    /\ g_delays = <<>>
    /\ g_fails = <<>>
    /\ g_ends = <<>>
    /\ stage_idx = 0
    /\ state = initial_state(PyNone, 0)
    /\ invoked = <<>>
    /\ stage_ends = <<>>
    /\ elapsed = 0
    /\ g_out = GRunning
    /\ node_instances = {}
    /\ heap = EmptyHeap
    /\ cur = [c \in Calls |-> 0]
    /\ owner = <<>>
    /\ last_op = NoOp
    /\ graph = [stages |-> <<>>, style |-> "-"] @@ EmptyGraph
    /\ thread = NoThread
    /\ prev_thread = NoThread
    /\ report = NoReport
    /\ manager = NoManager
    /\ engine = NoEngine

Next ==
    \/ \E k \in {"LLM", "TOOL"}, inp \in Inputs : CallRun(k, inp)
    \/ NodeAttempt
    \/ NodeCompute
    \/ NodeSleep
    \/ \E inp \in Inputs, env \in ExecEnvs : CallExecute(inp, env)
    \/ ExecAttempt
    \/ \E d \in StepDurations : StageStep(d)
    \/ \E e \in AinvokeErrors : AinvokeRaises(e)
    \/ \E r \in AinvokeResults : AinvokeReturns(r)
    \/ OuterDeadline
    \/ ExecSleep
    \/ \E c \in Calls, inp \in StateInputs : CreateState(c, inp)
    \/ \E c \in Calls, stage \in StageArgs, result \in ResultArgs :
         SetStageResult(c, stage, result)
    \/ \E c \in Calls : AddMessage(c)
    \/ \E c \in Calls : SetError(c)
    \/ \E c \in Calls : ClearError(c)
    \/ \E c \in Calls, stage \in StageArgs, out \in LogicEnds : CustomNode(c, stage, out)
    \/ \E stages \in StageLists, style \in {"pipeline", "router", "state-graph"} :
         BuildEdges(stages, style)
    \/ \E u \in UserIds, s \in SessionIds : GetThreadConfig(u, s)
    \/ \E u \in UserIds, v \in Versions, s \in SessionIds :
         GetVersionedThreadConfig(u, v, s)
    \/ \E env \in EnvValues, sqlite \in SqliteOutcomes : NewCheckpointerManager(env, sqlite)
    \/ IsEnabled
    \/ \E e \in ExpectedOutputs, b \in ExpectedBehaviors, a \in AgentEnds :
         ExecuteUseCase(e, b, a)

Spec == Init /\ [][Next]_vars

\* The steps of a call in progress: of run(), of execute() and of the traversal
\* inside it
CallNext ==
    \/ NodeAttempt
    \/ NodeCompute
    \/ NodeSleep
    \/ ExecAttempt
    \/ \E d \in StepDurations : StageStep(d)
    \/ \E e \in AinvokeErrors : AinvokeRaises(e)
    \/ \E r \in AinvokeResults : AinvokeReturns(r)
    \/ OuterDeadline
    \/ ExecSleep

\* The event loop keeps running a call in progress: a coroutine that is ready is
\* resumed, and a timer (asyncio.sleep, asyncio.wait_for) that is armed fires.
LiveSpec == Spec /\ WF_vars(CallNext)

-----------------------------------------------------------------------------
(* Properties of the node executor *)

RunEnded == npc \in {"done", "none"}

\* C1: when input validation fails on an attempt of run(), run() ends in that
\* very step with an exception: the compute function has been invoked zero
\* times, no backoff delay has been taken and the attempt counter has not moved.
C1_ValidationFailureEndsRun ==
    [][ (npc = "attempt" /\ attempt < max_retries /\ ~validate_input(n_input))
        => /\ RunEnded'
           /\ n_out'.status = "raised"
           /\ computes' = 0
           /\ delays' = <<>>
           /\ attempt' = attempt ]_vars

C1_Witness ==
    /\ mode = "run"
    /\ npc = "done"
    /\ ~validate_input(n_input)
    /\ n_out.status = "raised"
    /\ computes = 0
    /\ delays = <<>>

\* Inputs the spec says node-level validation rejects: null, the empty string, a
\* string over the bound, an empty list, a list of over 1000 items, an empty dict
SpecRejectedShapes ==
    { PyNone, EmptyStr, PyStr(graph_max_str_len + 1, graph_max_str_len + 1),
      PyList(0), PyList(graph_max_list_len + 1), PyDict(0) }

\* C2 as stated: a node run given any of the shapes above never invokes the
\* compute function, takes no backoff delay and ends with an exception.
C2_AsStated ==
    (mode = "run" /\ n_input \in SpecRejectedShapes)
    => /\ computes = 0
       /\ delays = <<>>
       /\ (npc = "done" => n_out.status = "raised")

\* C2 (amended): node-level validation rejects null only. A run given null ends
\* on attempt 0 with zero compute invocations and zero backoff delays; a run
\* given any other input (the empty string, an over-long string, an empty or
\* over-long list, an empty dict) invokes the compute function on every attempt.
C2_NodeValidationRejectsNullOnly ==
    mode = "run"
    => /\ (n_input = PyNone
           => /\ computes = 0 /\ delays = <<>> /\ attempt = 0
              /\ npc \in {"attempt", "done"}
              /\ (npc = "done" => n_out.status = "raised"))
       /\ (n_input # PyNone
           => computes = (IF npc = "attempt" THEN attempt ELSE attempt + 1))

C2_Witness ==
    /\ mode = "run"
    /\ n_input = EmptyStr
    /\ npc = "done"
    /\ computes = max_retries

\* C3 as stated: a compute function that raises a non-validation, non-timeout
\* error on the first max_retries-1 attempts and then returns a value makes
\* run() return that value after max_retries compute invocations and
\* max_retries-1 delays, the a-th being base_delay * 2^a.
C3_AsStated ==
    (/\ mode = "run"
     /\ npc = "done"
     /\ Len(ends) = max_retries
     /\ \A i \in 1..(max_retries - 1) : ends[i].exc = "RuntimeError"
     /\ ends[max_retries].exc = "-"
     /\ ends[max_retries].value # PyNone)
    => /\ n_out = Returned(ends[max_retries].value)
       /\ computes = max_retries
       /\ delays = [i \in 1..(max_retries - 1) |-> retry_delay(kind) * (2 ^ (i - 1))]

\* C4: in an LLM node's run(), an awaited compute that ends in a timeout on
\* attempt a is followed, when a is not the last attempt, by a sleep of
\* base_delay * (a + 1) and then attempt a + 1, and on the last attempt by an
\* exception with no sleep; any other retried failure on attempt a sleeps
\* base_delay * 2^a. One attempt counter serves both kinds of failure.
C4_TimeoutRetry ==
    [][ /\ (/\ kind = "LLM" /\ npc = "compute" /\ Len(ends') = Len(ends) + 1
            /\ ends'[Len(ends')].exc \notin ValidationErrors)
           => IF attempt < max_retries - 1
              THEN /\ npc' = "sleep"
                   /\ attempt' = attempt
                   /\ delays' = Append(delays,
                        IF ends'[Len(ends')].exc = "TimeoutError"
                        THEN llm_retry_delay * (attempt + 1)
                        ELSE llm_retry_delay * (2 ^ attempt))
              ELSE /\ RunEnded'
                   /\ n_out'.status = "raised"
                   /\ delays' = delays
        /\ (kind = "LLM" /\ npc = "sleep" /\ mode = "run" /\ npc' # "sleep")
           => (npc' = "attempt" /\ attempt' = attempt + 1) ]_vars

C4_Witness ==
    /\ mode = "run"
    /\ kind = "LLM"
    /\ npc = "attempt"
    /\ attempt = 2
    /\ Len(ends) = 2
    /\ ends[1].exc = "RuntimeError"
    /\ ends[2].deadline
    /\ delays = <<llm_retry_delay * 1, llm_retry_delay * 2>>

\* C5 as stated: when the last attempt of run() fails with a timeout or other
\* runtime error, run() takes no further delay and raises NodeExecutionError
\* carrying the stage name, the attempt count and the last underlying cause.
C5_AsStated ==
    (/\ mode = "run"
     /\ npc = "done"
     /\ Len(fails) = max_retries
     /\ fails[max_retries] \notin ValidationErrors)
    => /\ Len(delays) = max_retries - 1
       /\ n_out.status = "raised"
       /\ n_out.error.type = "NodeExecutionError"
       /\ n_out.error.stage = node_name(kind)
       /\ n_out.error.attempts = max_retries
       /\ n_out.error.cause = fails[max_retries]

\* C6 as stated: when the compute function returns a null output, run() ends on
\* that attempt with an exception: no later compute invocation, no backoff delay.
C6_AsStated ==
    mode = "run"
    => \A i \in 1..Len(ends) :
         (ends[i].exc = "-" /\ ends[i].value = PyNone)
         => /\ i = Len(ends)
            /\ npc = "done"
            /\ n_out.status = "raised"
            /\ computes = i
            /\ Len(delays) = i - 1

-----------------------------------------------------------------------------
(* Properties of the graph engine *)

IsGraphExecutionError(out) ==
    out.status = "raised" /\ out.error.type = "GraphExecutionError"

\* C7: in execute(), a validation failure is terminal on the attempt where it
\* occurs. Invalid input: no stage is ever invoked, ainvoke is never awaited, no
\* delay is taken and execute() raises GraphExecutionError on attempt 0. Invalid
\* output returned by the i-th traversal: it is the last traversal, execute()
\* raises GraphExecutionError on that attempt and no delay follows it.
C7_GraphValidationTerminal ==
    mode = "execute"
    => /\ (~validate_graph_input(g_input)
           => /\ invoked = <<>> /\ g_ends = <<>> /\ g_delays = <<>> /\ g_attempt = 0
              /\ gpc \in {"attempt", "done"}
              /\ (gpc = "done" => IsGraphExecutionError(g_out)))
       /\ \A i \in 1..Len(g_ends) :
            (g_ends[i].exc = "-" /\ ~validate_graph_output(g_ends[i].result))
            => /\ i = Len(g_ends)
               /\ gpc = "done"
               /\ IsGraphExecutionError(g_out)
               /\ g_attempt = i - 1
               /\ Len(g_delays) = i - 1

C7_Witness ==
    /\ mode = "execute"
    /\ gpc = "done"
    /\ Len(g_ends) = 2
    /\ g_ends[2].exc = "-"
    /\ ~validate_graph_output(g_ends[2].result)
    /\ Len(g_delays) = 1
    /\ IsGraphExecutionError(g_out)

\* The shape rules of the spec: non-null; a string is non-empty after stripping
\* and at most 50000 characters; a list has 1..1000 items; a dict is non-empty
ShapeRule(v) ==
    /\ v.type # "NoneType"
    /\ (v.type = "str" => (v.strip >= 1 /\ v.len <= 50000))
    /\ (v.type = "list" => (v.len >= 1 /\ v.len <= 1000))
    /\ (v.type = "dict" => v.len >= 1)

\* execute() has decided on its input, and accepted it (the traversal began)
GraphDecided == mode = "execute" /\ ~(gpc = "attempt" /\ g_attempt = 0)
GraphAccepted == gpc \in {"traverse", "sleep"} \/ g_ends # <<>>

\* run() has decided on its input, and accepted it (the compute was invoked)
NodeDecided == mode = "run" /\ ~(npc = "attempt" /\ attempt = 0)
NodeAccepted == computes >= 1

\* C8 as stated: execute() accepts its input exactly when the shape rules hold,
\* and a node's run() accepts its input under the same rules.
C8_AsStated ==
    /\ (GraphDecided => (GraphAccepted <=> ShapeRule(g_input)))
    /\ (NodeDecided => (NodeAccepted <=> ShapeRule(n_input)))

\* C8 (amended): execute() accepts its input exactly when the shape rules hold;
\* a node's run() accepts its input exactly when it is non-null.
C8_GraphShapeRulesNodeNonNull ==
    /\ (GraphDecided => (GraphAccepted <=> ShapeRule(g_input)))
    /\ (NodeDecided => (NodeAccepted <=> n_input.type # "NoneType"))

C8_Witness ==
    /\ mode = "execute"
    /\ g_input = BlankStr
    /\ gpc = "done"
    /\ g_ends = <<>>
    /\ IsGraphExecutionError(g_out)

\* C9: execute() makes at most 3 attempts. The i-th failed attempt (attempt
\* a = i - 1), when its failure is not a validation error, is followed for a < 2
\* by a sleep of 2 * (a + 1) after a timeout and 2 * 2^a after any other error and
\* then by attempt a + 1; for a = 2 execute() raises GraphExecutionError and takes
\* no further delay.
C9_GraphRetryBackoff ==
    mode = "execute"
    => /\ g_attempt < 3
       /\ Len(g_fails) <= 3
       /\ Len(g_delays) <= 2
       /\ \A i \in 1..Len(g_fails) :
            g_fails[i] \notin ValidationErrors
            => IF i < 3
               THEN /\ Len(g_delays) >= i
                    /\ g_delays[i] = (IF g_fails[i] = "TimeoutError"
                                      THEN 2 * i ELSE 2 * (2 ^ (i - 1)))
                    /\ (g_attempt >= i \/ (g_attempt = i - 1 /\ gpc = "sleep"))
               ELSE /\ gpc = "done"
                    /\ IsGraphExecutionError(g_out)
                    /\ Len(g_delays) = 2

C9_Witness ==
    /\ mode = "execute"
    /\ gpc = "done"
    /\ g_fails = <<"TimeoutError", "RuntimeError", "RuntimeError">>
    /\ g_delays = <<2, 4>>
    /\ IsGraphExecutionError(g_out)

\* C10: a traversal never runs past the 120 s deadline of its attempt: it is
\* cut there and the attempt counts as a timeout failure, retried after
\* 2 * (a + 1) s on attempts 0 and 1 and ending execute() with
\* GraphExecutionError on attempt 2; whether a node's own 60 s deadline passed
\* plays no part.
C10_OuterDeadlineIsTimeout ==
    mode = "execute"
    => /\ elapsed <= 120
       /\ \A i \in 1..Len(g_ends) :
            g_ends[i].deadline
            => /\ Len(g_fails) >= i
               /\ g_fails[i] = "TimeoutError"
               /\ (i < 3 => (Len(g_delays) >= i /\ g_delays[i] = 2 * i))
               /\ (i = 3 => (gpc = "done" /\ IsGraphExecutionError(g_out)
                             /\ Len(g_delays) = 2))

\* Three attempts, each cut at the deadline after two stages were invoked, with
\* no compute call ever awaited (so no node deadline passed)
C10_Witness ==
    /\ mode = "execute"
    /\ gpc = "done"
    /\ Len(g_ends) = 3
    /\ \A i \in 1..3 : g_ends[i].deadline
    /\ Len(invoked) = 6
    /\ ends = <<>>
    /\ g_delays = <<2, 4>>
    /\ IsGraphExecutionError(g_out)

-----------------------------------------------------------------------------
(* Properties of a traversal *)

\* Attempts of execute() that failed: an awaited ainvoke that raised, was cut at
\* the deadline or returned an invalid result
FailedTraversals ==
    {i \in 1..Len(g_ends) :
        g_ends[i].exc # "-" \/ ~validate_graph_output(g_ends[i].result)}

\* C11: the only exception that leaves execute() is GraphExecutionError. Every
\* exception execute() handles comes from its own input check or from the
\* awaited ainvoke (raised, cut at the deadline, or an invalid result) and is
\* either retried or replaced by GraphExecutionError; an error caught by a stage
\* wrapper is never one of them.
C11_OnlyGraphExecutionError ==
    mode = "execute"
    => /\ (gpc = "done" => g_out.status \in {"returned", "raised"})
       /\ (g_out.status = "raised"
           => /\ g_out.error.type = "GraphExecutionError"
              /\ gpc = "done"
              /\ Len(g_fails) > 0
              /\ g_out.error.cause = g_fails[Len(g_fails)])
       /\ (IF validate_graph_input(g_input)
           THEN Len(g_fails) = Cardinality(FailedTraversals)
           ELSE Len(g_fails) <= 1)
       /\ \A i \in 1..Len(g_fails) :
            g_fails[i] \in {"ValueError", "TypeError", "TimeoutError", "RuntimeError"}

\* A traversal whose three stage wrappers each caught an error, then a
\* RuntimeError, a timeout and a TypeError out of ainvoke
C11_Witness ==
    /\ mode = "execute"
    /\ gpc = "done"
    /\ g_fails = <<"RuntimeError", "TimeoutError", "TypeError">>
    /\ \E i \in 1..Len(stage_ends) : stage_ends[i].exc # "-"
    /\ g_out.status = "raised"
    /\ g_out.error.type = "GraphExecutionError"

\* C12 as stated: execute() given a valid input either raises
\* GraphExecutionError or returns a state whose results has an entry for every
\* declared stage.
C12_AsStated ==
    (mode = "execute" /\ ShapeRule(g_input) /\ gpc = "done")
    => \/ IsGraphExecutionError(g_out)
       \/ /\ g_out.status = "returned"
          /\ (g_out.result = StateResult
              => \A i \in 1..Len(agent_stages) : agent_stages[i] \in DOMAIN state.results)

\* Results of the end-to-end example for the input "x": stage i holds "x"
\* followed by the names of stages 1..i
AppendedResults ==
    [s \in {agent_stages[i] : i \in 1..Len(agent_stages)} |->
        PyStr(1 + StageNameLen * PyIndex(agent_stages, s),
              1 + StageNameLen * PyIndex(agent_stages, s))]

\* C13 as stated: execute("x"), with every compute call appending its stage name
\* to its input, returns the state whose results are "x" + names of stages 1..i
\* for every stage i.
C13_AsStated ==
    (/\ mode = "execute"
     /\ g_input = PyStr(1, 1)
     /\ gpc = "done"
     /\ g_out = GReturned(StateResult)
     /\ \A i \in 1..Len(ends) : ends[i].exc = "-" /\ ends[i].value.type = "str")
    => state.results = AppendedResults

\* The outcome of a stage wrapper as it is written in state st
OutcomeWritten(st, e) ==
    IF e.exc = "-" THEN e.stage \in DOMAIN st.results
    ELSE st.error = <<e.stage, e.exc>>

\* C14: within one traversal the stage wrappers run one at a time in declared
\* order. The wrapper of stage i is invoked only when no node run is in flight
\* and the wrappers of stages 1..i-1 have all ended, in that order, the outcome
\* of stage i-1 (its result or its error) being written in the state; a compute
\* call of a stage is started only after all earlier stages have ended.
C14_StagesInDeclaredOrder ==
    [][ /\ (invoked' # invoked
            => LET i == PyIndex(agent_stages, invoked'[Len(invoked')]) IN
               /\ Len(invoked') = Len(invoked) + 1
               /\ npc = "none"
               /\ Len(stage_ends) = i - 1
               /\ \A j \in 1..(i - 1) : stage_ends[j].stage = agent_stages[j]
               /\ (i > 1 => OutcomeWritten(state, stage_ends[i - 1])))
        /\ ((mode = "execute" /\ computes' > computes)
            => Len(stage_ends) = stage_idx - 1) ]_vars

\* A traversal in which all three wrappers were invoked and ended in order
C14_Witness ==
    /\ mode = "execute"
    /\ gpc = "traverse"
    /\ g_attempt = 0
    /\ invoked = agent_stages
    /\ Len(stage_ends) = Len(agent_stages)
    /\ \A j \in 1..Len(agent_stages) : stage_ends[j].stage = agent_stages[j]

\* C15: an error caught by a stage wrapper does not end the traversal and does
\* not count as a failed attempt of execute(): in the step where the wrapper
\* ends with an error, the error is written to state.error, execute() stays in
\* the same attempt with no failure recorded and no delay, and the graph routes
\* to the next declared stage (END after the last). A traversal that returns
\* has therefore run every declared stage, whatever errors were caught.
C15_NodeFailureContinues ==
    [][ /\ ((gpc = "traverse" /\ Len(stage_ends') = Len(stage_ends) + 1
             /\ stage_ends'[Len(stage_ends')].exc # "-")
            => LET e == stage_ends'[Len(stage_ends')] IN
               /\ e.stage = agent_stages[stage_idx]
               /\ state'.error = <<e.stage, e.exc>>
               /\ gpc' = "traverse"
               /\ g_attempt' = g_attempt
               /\ g_fails' = g_fails
               /\ g_delays' = g_delays
               /\ stage_idx' = stage_idx + 1)
        /\ ((Len(g_ends') = Len(g_ends) + 1 /\ g_ends'[Len(g_ends')].exc = "-")
            => /\ Len(stage_ends) = Len(agent_stages)
               /\ \A j \in 1..Len(agent_stages) : stage_ends[j].stage = agent_stages[j]) ]_vars

\* execute() returned on its first attempt although every stage wrapper caught
\* an error
C15_Witness ==
    /\ mode = "execute"
    /\ gpc = "done"
    /\ g_out = GReturned(StateResult)
    /\ g_attempt = 0
    /\ g_fails = <<>>
    /\ Len(stage_ends) = Len(agent_stages)
    /\ \A j \in 1..Len(stage_ends) : stage_ends[j].exc # "-"
    /\ state.error # NoneErr

\* The messages the spec expects after the wrappers in es have ended: the human
\* message, then one AI message per stage that completed, in stage order
RECURSIVE ExpectedMessages(_, _)
ExpectedMessages(inp, es) ==
    IF es = <<>> THEN << <<"human", PyStrOf(inp)>> >>
    ELSE LET front == ExpectedMessages(inp, SubSeq(es, 1, Len(es) - 1))
             e == es[Len(es)]
         IN IF e.exc = "-" THEN Append(front, <<"ai", e.stage>>) ELSE front

\* C19 as stated: throughout a traversal, messages is the initial human message
\* followed by exactly one AI message per completed stage, in stage order.
C19_AsStated ==
    (mode = "execute"
     /\ (gpc = "traverse" \/ (gpc = "done" /\ g_out = GReturned(StateResult))))
    => state.messages = ExpectedMessages(g_input, stage_ends)

-----------------------------------------------------------------------------
(* Properties of the state functions *)

DeclaredStages == {agent_stages[i] : i \in 1..Len(agent_stages)}

\* A step of a state function leaves every object that existed before it as it was
OldObjectsUnchanged ==
    /\ Len(heap'.states) >= Len(heap.states)
    /\ Len(heap'.dicts) >= Len(heap.dicts)
    /\ Len(heap'.lists) >= Len(heap.lists)
    /\ \A i \in 1..Len(heap.states) : heap'.states[i] = heap.states[i]
    /\ \A i \in 1..Len(heap.dicts) : heap'.dicts[i] = heap.dicts[i]
    /\ \A i \in 1..Len(heap.lists) : heap'.lists[i] = heap.lists[i]

\* The state returned differs from the state given in results[stage] = value only
WritesOnlyStage(given, returned, stage, value) ==
    /\ DOMAIN returned.results = DOMAIN given.results \cup {stage}
    /\ returned.results[stage] = value
    /\ \A s \in DOMAIN given.results \ {stage} : returned.results[s] = given.results[s]
    /\ returned = [given EXCEPT !.results = returned.results]

\* C16: set_stage_result(state, stage, value) returns a state object that did
\* not exist before, whose results maps stage to value and agrees with the given
\* state on every other results entry and every other field; every object that
\* existed before the call, the given state and its results dict included, is
\* unchanged. A node function built for a stage, when its logic returns, writes
\* the results entry of that stage only, and a traversal step that changes
\* results changes the entry of the running stage only.
C16_SetStageResultFrame ==
    [][ /\ ((heap' # heap /\ last_op'.op = "set_stage_result")
            => /\ last_op'.ret > Len(heap.states)
               /\ OldObjectsUnchanged
               /\ WritesOnlyStage(ValueIn(heap, last_op'.arg),
                                  ValueIn(heap', last_op'.ret),
                                  last_op'.stage, last_op'.value))
        /\ ((heap' # heap /\ last_op'.op = "custom_node" /\ last_op'.value # PyNone)
            => /\ OldObjectsUnchanged
               /\ WritesOnlyStage(ValueIn(heap, last_op'.arg),
                                  ValueIn(heap', last_op'.ret),
                                  last_op'.stage, last_op'.value))
        /\ ((mode = "execute" /\ gpc = "traverse" /\ gpc' = "traverse"
             /\ state'.results # state.results)
            => \A s \in (DOMAIN state.results \cup DOMAIN state'.results)
                          \ {agent_stages[stage_idx]} :
                 /\ s \in DOMAIN state.results
                 /\ s \in DOMAIN state'.results
                 /\ state'.results[s] = state.results[s]) ]_vars

\* set_stage_result called on a state that already holds another stage's result
C16_Witness ==
    /\ last_op.op = "set_stage_result"
    /\ last_op.stage = "llm_2"
    /\ DOMAIN ValueIn(heap, last_op.arg).results = {"llm_1"}
    /\ DOMAIN ValueIn(heap, last_op.ret).results = {"llm_1", "llm_2"}
    /\ ValueIn(heap, last_op.ret).results["llm_1"] # ValueIn(heap, last_op.ret).results["llm_2"]

\* C17: set_error and clear_error return a state that differs from the given
\* state in the error field only and leave every existing object unchanged; a
\* node function whose logic raises returns a state with error set and the
\* given results; during a traversal no step removes or changes a results entry.
C17_ErrorOpsFrame ==
    [][ /\ ((heap' # heap /\ last_op'.op \in {"set_error", "clear_error"})
            => LET given == ValueIn(heap, last_op'.arg)
                   returned == ValueIn(heap', last_op'.ret)
               IN /\ OldObjectsUnchanged
                  /\ returned = [given EXCEPT !.error = returned.error]
                  /\ (last_op'.op = "set_error" => returned.error # NoneErr)
                  /\ (last_op'.op = "clear_error" => returned.error = NoneErr))
        /\ ((heap' # heap /\ last_op'.op = "custom_node" /\ last_op'.value = PyNone)
            => LET given == ValueIn(heap, last_op'.arg)
                   returned == ValueIn(heap', last_op'.ret)
               IN /\ OldObjectsUnchanged
                  /\ returned.results = given.results
                  /\ returned.error # NoneErr)
        /\ ((mode = "execute" /\ gpc = "traverse" /\ gpc' \in {"traverse", "done"})
            => \A s \in DOMAIN state.results :
                 s \in DOMAIN state'.results /\ state'.results[s] = state.results[s]) ]_vars

\* set_error called on a state that holds a result: the result is still there
C17_Witness ==
    /\ last_op.op = "set_error"
    /\ ValueIn(heap, last_op.arg).error = NoneErr
    /\ ValueIn(heap, last_op.ret).error # NoneErr
    /\ DOMAIN ValueIn(heap, last_op.arg).results = {"llm_1"}
    /\ ValueIn(heap, last_op.ret).results = ValueIn(heap, last_op.arg).results

\* C18 as stated: no state, whether of a traversal or returned by a state
\* function, has a results key outside the declared stages.
C18_AsStated ==
    /\ (mode = "execute" => DOMAIN state.results \subseteq DeclaredStages)
    /\ \A i \in 1..Len(heap.states) :
         DOMAIN ValueIn(heap, i).results \subseteq DeclaredStages

\* C18 (amended): every state of a traversal run by execute() has results keys
\* within the declared stages. set_stage_result does not check the stage name:
\* given a name that is not declared (directly or through a node function built
\* by create_custom_node for that name) it returns a state whose results has
\* that key.
C18_TraversalKeysDeclared ==
    [][ /\ (mode' = "execute" => DOMAIN state'.results \subseteq DeclaredStages)
        /\ ((/\ heap' # heap
             /\ last_op'.stage \notin DeclaredStages
             /\ \/ last_op'.op = "set_stage_result"
                \/ (last_op'.op = "custom_node" /\ last_op'.value # PyNone))
            => /\ last_op'.stage \in DOMAIN ValueIn(heap', last_op'.ret).results
               /\ ValueIn(heap', last_op'.ret).results[last_op'.stage] = last_op'.value) ]_vars

C18_Witness ==
    /\ last_op.op = "set_stage_result"
    /\ last_op.stage = "summary"
    /\ "summary" \notin DeclaredStages
    /\ "summary" \in DOMAIN ValueIn(heap, last_op.ret).results

\* The list and dict objects a caller's states refer to
ObjectsOf(h, own, c) ==
    [lists |-> {h.states[i].messages : i \in {j \in 1..Len(h.states) : own[j] = c}},
     dicts |-> {h.states[i].results : i \in {j \in 1..Len(h.states) : own[j] = c}}]

\* C20: when the calls of two callers interleave, each call allocates what it
\* returns and changes no object that existed before it, so the state the other
\* caller holds reads the same before and after; and no messages list or
\* results dict is referred to by states of both callers.
C20_CallsIsolated ==
    [][ heap' # heap
        => /\ OldObjectsUnchanged
           /\ \A d \in Calls \ {last_op'.call} :
                /\ cur'[d] = cur[d]
                /\ (cur[d] # 0 => ValueIn(heap', cur[d]) = ValueIn(heap, cur[d]))
           /\ \A c \in Calls, d \in Calls :
                c # d => /\ ObjectsOf(heap', owner', c).lists
                              \cap ObjectsOf(heap', owner', d).lists = {}
                         /\ ObjectsOf(heap', owner', c).dicts
                              \cap ObjectsOf(heap', owner', d).dicts = {} ]_vars

\* Two callers alternate: one wrote a result, the other set an error, and each
\* reads only its own
C20_Witness ==
    /\ owner = <<1, 2, 1, 2>>
    /\ DOMAIN ValueIn(heap, cur[1]).results = {"llm_1"}
    /\ ValueIn(heap, cur[1]).error = NoneErr
    /\ ValueIn(heap, cur[2]).results = NoResults
    /\ ValueIn(heap, cur[2]).error # NoneErr


-----------------------------------------------------------------------------
(* Orchestration styles *)

\* C21: with the default routing function, a state-graph over a non-empty
\* stage list has the edge START -> stage[0], and from START it visits the
\* stages in the order of the list and then END, the same nodes in the same
\* order as the pipeline chain over that list visits from stage[0].
C21_StateMachineIsPipeline ==
    (graph.style = "state-graph" /\ Len(graph.stages) >= 1) =>
        LET stages == graph.stages
            fuel == Len(stages) + 2
            pipeline == build_edges(stages, "pipeline")
        IN /\ <<START, stages[1]>> \in graph.edges
           /\ \A st \in RoutingStates :
                /\ Walk(graph, START, st, fuel) = stages \o <<END>>
                /\ Walk(graph, START, st, fuel)
                     = <<stages[1]>> \o Walk(pipeline, stages[1], st, fuel)

C21_Witness ==
    /\ graph.style = "state-graph"
    /\ Len(graph.stages) = 3
    /\ Cardinality(graph.branches) = 2
    /\ \A st \in RoutingStates :
         Walk(graph, START, st, 5) = graph.stages \o <<END>>

\* C22: a pipeline graph over n >= 1 distinct stages has exactly the edges
\* s[i] -> s[i+1] for i < n-1 and s[n-1] -> END, so each stage has exactly one
\* outgoing edge and each stage is reachable from s[0].
C22_PipelineEdgeSet ==
    (graph.style = "pipeline" /\ Len(graph.stages) >= 1) =>
        LET s == graph.stages
            n == Len(s)
        IN /\ graph.edges = {<<s[i], s[i + 1]>> : i \in 1..(n - 1)} \cup {<<s[n], END>>}
           /\ graph.branches = {}
           /\ \A i \in 1..n : Cardinality({e \in graph.edges : e[1] = s[i]}) = 1
           /\ \A i \in 1..n : s[i] \in ReachableFrom(graph, {s[1]}, n + 1)

C22_Witness ==
    /\ graph.style = "pipeline"
    /\ Len(graph.stages) = 3
    /\ <<graph.stages[3], END>> \in graph.edges
    /\ <<graph.stages[1], graph.stages[2]>> \in graph.edges

\* C23 as stated: in a router graph s[0] has an edge to every other declared
\* stage, every other stage has an edge to END, and every declared stage is
\* reachable from s[0].
C23_AsStated ==
    graph.style = "router" =>
        LET s == graph.stages
            n == Len(s)
        IN \A i \in 2..n :
             /\ <<s[1], s[i]>> \in graph.edges
             /\ <<s[i], END>> \in graph.edges
             /\ s[i] \in ReachableFrom(graph, {s[1]}, n + 1)


-----------------------------------------------------------------------------
(* Thread configurations *)

\* "user_<user_id>", followed by "_session_<session_id>" when with_session
ThreadIdText(user_id, with_session, session_id) ==
    <<"u", "s", "e", "r", "_">> \o user_id.chars
      \o (IF with_session
          THEN <<"_", "s", "e", "s", "s", "i", "o", "n", "_">> \o session_id.chars
          ELSE <<>>)

\* The version a call uses: its argument, or the default "v1.0.0"
VersionText(version) ==
    IF version.given THEN version.chars ELSE <<"v", "1", ".", "0", ".", "0">>

C26_AsStated ==
    (/\ thread.fn = "get_versioned_thread_config"
     /\ thread.user_id = alice
     /\ thread.version = StrArg(<<"v", "2">>)
     /\ thread.session_id = StrArg(<<"s", "1">>))
    => thread.thread_id
         = <<"u", "s", "e", "r", "_", "a", "l", "i", "c", "e", "_", "s", "e", "s", "s",
             "i", "o", "n", "_", "s", "1", "_", "v", "2">>

-----------------------------------------------------------------------------
(* Checkpointer manager *)

\* Values of ENABLE_CHECKPOINTER that switch checkpointing off
DisabledValues == {"false", "False", "FALSE"}

\* C27: when the SQLite store cannot be constructed (and checkpointing is not
\* switched off), the manager is constructed all the same, holds a MemorySaver,
\* and is_enabled() returns True.
C27_FallbackOnFailure ==
    (manager.sqlite = "raises" /\ manager.env \notin DisabledValues) =>
        /\ manager.checkpointer = "MemorySaver"
        /\ manager.enabled \in {"-", "True"}

C27_Witness ==
    /\ manager.env = "unset"
    /\ manager.sqlite = "raises"
    /\ manager.checkpointer = "MemorySaver"
    /\ manager.enabled = "True"

\* C28 as stated: with ENABLE_CHECKPOINTER=false the manager holds an in-memory
\* store and is_enabled() returns True.
C28_AsStated ==
    manager.env = "false" =>
        /\ manager.checkpointer = "MemorySaver"
        /\ manager.enabled \in {"-", "True"}

\* C28: with ENABLE_CHECKPOINTER equal to "false" in any letter case the manager
\* holds no store and is_enabled() returns False; with any other value, or the
\* variable unset, it holds a store and is_enabled() returns True.
C28_DisabledHoldsNoStore ==
    manager.env # "-" =>
        IF manager.env \in DisabledValues
        THEN manager.checkpointer = "None" /\ manager.enabled \in {"-", "False"}
        ELSE /\ manager.checkpointer \in {"SqliteSaver", "MemorySaver"}
             /\ manager.enabled \in {"-", "True"}

C28_Witness ==
    /\ manager.env = "False"
    /\ manager.checkpointer = "None"
    /\ manager.enabled = "False"

\* C29 as stated: when the graph of execute() was compiled with a checkpoint
\* store, every traversal is started with a thread configuration.
C29_AsStated ==
    engine.checkpointer \notin {"-", "None"} =>
        \A i \in 1..Len(engine.configs) :
            engine.configs[i].passed /\ engine.configs[i].thread_id # <<>>


-----------------------------------------------------------------------------
(* Use cases *)

\* Items of a dict expectation that the output does not satisfy
Unmet(output, items) ==
    {i \in 1..Len(items) :
        \/ items[i][1] \notin DOMAIN output.items
        \/ output.items[items[i][1]] # items[i][2]}

\* C31 as stated: a use case whose dict expectation is not met by the agent's
\* output is reported with status "validation_failed" and a message naming the
\* first expected key that is missing or unequal.
C31_AsStated ==
    (/\ report.ran
     /\ report.result.status # "error"
     /\ report.expected_output.given
     /\ Unmet(report.result.output, report.expected_output.items) # {})
    => LET items == report.expected_output.items
           unmet == Unmet(report.result.output, items)
           first == CHOOSE i \in unmet : \A j \in unmet : i <= j
       IN /\ report.result.status = "validation_failed"
          /\ report.result.validation.key = items[first][1]

\* C31: when the agent returns a dict that does not meet a dict expectation,
\* the validation result fails with a message naming the first expected key, in
\* the order of the expectation, that is missing ("Missing expected key") or
\* unequal ("Value mismatch for key"), and the status is "validation_failed"
\* unless a behavior check also fails, which makes it "behavior_failed"; when
\* the agent returns None the validation fails with a validation error that
\* names no key.
C31_FirstUnmetKey ==
    (/\ report.ran
     /\ report.result.status # "error"
     /\ report.expected_output.given
     /\ Unmet(report.result.output, report.expected_output.items) # {})
    => LET items == report.expected_output.items
           output == report.result.output
           unmet == Unmet(output, items)
           first == CHOOSE i \in unmet : \A j \in unmet : i <= j
           validation == report.result.validation
       IN /\ ~validation.passed
          /\ output.type = "dict" =>
               /\ validation.key = items[first][1]
               /\ validation.kind = IF items[first][1] \in DOMAIN output.items
                                    THEN "Value mismatch for key"
                                    ELSE "Missing expected key"
          /\ output.type = "NoneType" =>
               validation.kind = "Validation error" /\ validation.key = "-"
          /\ report.result.status = IF report.result.behavior_check.passed
                                    THEN "validation_failed" ELSE "behavior_failed"

C31_Witness ==
    /\ report.ran
    /\ report.expected_output = [given |-> TRUE, items |-> << <<"status", "x">> >>]
    /\ report.result.output.type = "dict"
    /\ DOMAIN report.result.output.items = {"status"}
    /\ report.result.output.items["status"] = "y"
    /\ report.result.status = "validation_failed"
    /\ report.result.validation = UcFailed("Value mismatch for key", "status")


-----------------------------------------------------------------------------
(* Thread isolation *)

\* C33 as stated: two calls of the same thread-configuration function with
\* different (user_id, session_id, version) arguments give different thread ids.
C33_AsStated ==
    (/\ thread.fn # "-"
     /\ thread.fn = prev_thread.fn
     /\ <<thread.user_id, thread.session_id, thread.version>>
          # <<prev_thread.user_id, prev_thread.session_id, prev_thread.version>>)
    => thread.thread_id # prev_thread.thread_id


-----------------------------------------------------------------------------
(* The state of a traversal *)

\* Indices of the stage wrappers of the current traversal that failed
FailedStages == {i \in 1..Len(stage_ends) : stage_ends[i].exc # "-"}

\* C34: throughout a traversal, and in the state execute() returns, error is
\* null exactly when no stage wrapper of that traversal has failed, and else
\* carries the message of the last wrapper that failed; the state functions of
\* a wrapper's success path (set_stage_result, add_message) return a state
\* with the error of the state they were given.
C34_ErrorIsLastFailure ==
    /\ (mode = "execute"
        /\ (gpc = "traverse" \/ (gpc = "done" /\ g_out = GReturned(StateResult))))
       => IF FailedStages = {} THEN state.error = NoneErr
          ELSE LET last == CHOOSE i \in FailedStages : \A j \in FailedStages : j <= i
               IN state.error = <<stage_ends[last].stage, stage_ends[last].exc>>
    /\ last_op.op \in {"set_stage_result", "add_message"}
       => ValueIn(heap, last_op.ret).error = ValueIn(heap, last_op.arg).error

C34_Witness ==
    /\ mode = "execute"
    /\ gpc = "done"
    /\ g_out = GReturned(StateResult)
    /\ Len(stage_ends) = 3
    /\ stage_ends[1].exc # "-"
    /\ state.error = <<"llm_3", stage_ends[3].exc>>

\* C35: every traversal starts from the state execute() builds for its attempt:
\* results empty, error null, messages holding only the human message of the
\* input, current_stage the first declared stage and metadata.attempt the
\* 1-based attempt number. Throughout the traversal and in the returned state
\* metadata.attempt is that number and results and error hold only what the
\* wrappers of this traversal wrote.
C35_FreshStatePerAttempt ==
    (mode = "execute"
     /\ (gpc = "traverse" \/ (gpc = "done" /\ g_out = GReturned(StateResult))))
    => /\ state.attempt = g_attempt + 1
       /\ state.input = g_input
       /\ state.current_stage = agent_stages[1]
       /\ state.messages[1] = <<"human", PyStrOf(g_input)>>
       /\ DOMAIN state.results \subseteq {stage_ends[i].stage : i \in 1..Len(stage_ends)}
       /\ (state.error # NoneErr => FailedStages # {})
       /\ (stage_ends = <<>> /\ npc = "none")
          => /\ state.results = NoResults
             /\ state.error = NoneErr
             /\ state.messages = << <<"human", PyStrOf(g_input)>> >>

\* The third traversal starts after two traversals that wrote errors and failed
C35_Witness ==
    /\ mode = "execute"
    /\ gpc = "traverse"
    /\ g_attempt = 2
    /\ Len(g_ends) = 2
    /\ stage_ends = <<>>
    /\ state.attempt = 3
    /\ state.error = NoneErr
    /\ state.results = NoResults
    /\ Len(state.messages) = 1


-----------------------------------------------------------------------------
(* Custom nodes *)

\* C37 as stated: a node built by create_custom_node, called with a state whose
\* error is set, returns, when its logic succeeds, a state with error null and
\* results[stage_name] holding the logic's result.
C37_AsStated ==
    (/\ last_op.op = "custom_node"
     /\ last_op.value # PyNone
     /\ ValueIn(heap, last_op.arg).error # NoneErr)
    => /\ ValueIn(heap, last_op.ret).error = NoneErr
       /\ last_op.stage \in DOMAIN ValueIn(heap, last_op.ret).results
       /\ ValueIn(heap, last_op.ret).results[last_op.stage] = last_op.value


-----------------------------------------------------------------------------
(* Termination *)

\* Number of times stage s occurs in the sequence of wrapper invocations
Invocations(s) == Cardinality({i \in 1..Len(invoked) : invoked[i] = s})

\* C38: every execute() call ends, by returning a state or by raising
\* GraphExecutionError. It makes at most 3 traversals and takes at most 2
\* graph-level delays; each stage is invoked at most 3 times, and one run() of a
\* node calls compute at most 3 times, so at most 9 compute calls per stage.
C38_ExecuteTerminates ==
    /\ [](mode = "execute"
          => /\ Len(g_ends) <= 3
             /\ Len(g_delays) <= 2
             /\ \A j \in 1..Len(agent_stages) : Invocations(agent_stages[j]) <= 3)
    /\ [](computes <= 3)
    /\ (mode = "execute")
         ~> (gpc = "done" /\ (g_out.status = "returned" \/ IsGraphExecutionError(g_out)))

\* execute() has ended after three full traversals and two delays
C38_Witness ==
    /\ mode = "execute"
    /\ gpc = "done"
    /\ IsGraphExecutionError(g_out)
    /\ Len(g_ends) = 3
    /\ Len(g_delays) = 2
    /\ \A j \in 1..Len(agent_stages) : Invocations(agent_stages[j]) = 3


-----------------------------------------------------------------------------
(* Backoff *)

\* C39: with 3 attempts the two backoff formulas cannot be told apart: the i-th
\* delay of a run() or of an execute() is base * i whatever kind of failure
\* preceded it (base after the first failed attempt, 2 * base after the second),
\* and there is no third delay.
C39_BackoffKindsAgree ==
    /\ mode = "run"
       => /\ Len(delays) <= 2
          /\ \A i \in 1..Len(delays) :
               delays[i] = (IF kind = "LLM" THEN 2 ELSE 1) * i
    /\ mode = "execute"
       => /\ Len(g_delays) <= 2
          /\ \A i \in 1..Len(g_delays) : g_delays[i] = 2 * i

\* execute() sleeps 2 and 4 seconds after an error followed by a timeout, as it
\* does after a timeout followed by an error
C39_Witness ==
    /\ mode = "execute"
    /\ gpc = "sleep"
    /\ g_fails = <<"RuntimeError", "TimeoutError">>
    /\ g_delays = <<2, 4>>

-----------------------------------------------------------------------------
(* Node functions *)

\* C40: get_graph_nodes installs the tool wrapper for every configured stage
\* (each has an LLM wrapper too, assigned earlier), and in every traversal the
\* wrapper that runs for a stage is its tool wrapper: no LLM node runs and no
\* LLM node instance is created.
C40_ToolWrapperInstalled ==
    /\ \A j \in 1..Len(agent_stages) : get_graph_nodes(agent_stages[j]) = "tool"
    /\ mode = "execute"
       => /\ \A i \in 1..Len(stage_ends) : stage_ends[i].wrapper = "tool"
          /\ (npc # "none" => kind = "TOOL")
          /\ \A key \in node_instances : key[2] = "tool"

C40_Witness ==
    /\ mode = "execute"
    /\ gpc = "done"
    /\ Len(stage_ends) = Len(agent_stages)
    /\ \A i \in 1..Len(stage_ends) :
         stage_ends[i].stage = agent_stages[i] /\ stage_ends[i].wrapper = "tool"

====
